---- MODULE Spec2Model ----
(***************************************************************************)
(* The query controllers of @intentions/react (useSearch, useSelect) on    *)
(* top of the ranking operations of @intentions/client (searchInText,      *)
(* searchItems).  One controller instance is modelled; which of the two    *)
(* hooks it is, is fixed by Init.  Rankings are kept abstract: a ranking   *)
(* is named by the query, the source it was computed from and the path     *)
(* (embedding or lexical fallback) that produced it.                       *)
(*                                                                         *)
(* The synchronous functions (chunker, tokenizer, cosine similarity,      *)
(* highlight projector) and the two client rankings with their scores are  *)
(* modelled in full further down and run one call at a time under          *)
(* FunctionSpec.                                                           *)
(*                                                                         *)
(* Spec follows the search session of a controller.  The dropdown of       *)
(* useSelect (isOpen, highlightedIndex, the selection) is followed under   *)
(* SelectSpec, useTooltip under TooltipSpec, and initialize() / dispose()  *)
(* of the client under ClientSpec.                                         *)
(***************************************************************************)
EXTENDS Integers, Sequences, FiniteSets, TLC

\* ------------------------------------------------------------------ bounds
\* debounceMs, counted in clock ticks
DebounceTicks == 2
\* the most requests (AbortControllers) that are in flight at once
MaxInFlight == 2

\* ------------------------------------------------------------ input values
Hooks == {"useSearch", "useSelect"}
\* per controller one query shorter than its minQueryLength and two that are not
Queries(h) == IF h = "useSearch" THEN {"a", "ab", "cd"} ELSE {"", "a", "b"}
Texts == {"", "One. Two."}
ItemLists == {<<>>, <<"Cat", "Dog">>}
\* what embedMany does: resolves with well-formed vectors, rejects with a
\* DOMException named AbortError, rejects with any other error
Responses == {"ok", "abort", "failure"}

NoError == "null"
NoResults == <<>>

VARIABLES
    hook,               \* which controller this is
    client,             \* useClient() is non-null
    embeddingProvider,  \* client: embeddingProvider is non-null
    initialized,        \* client: initialized
    source,             \* the text (useSearch) or items (useSelect) prop
    query,              \* useState query
    results,            \* useState results
    isSearching,        \* useState isSearching
    error,              \* useState error
    debounceTimerRef,   \* id held by debounceTimerRef.current, 0 for null
    timers,             \* the pending setTimeout timers
    lastQueryRef,
    lastTextRef,
    abortControllerRef, \* the AbortController held: 0 for null, Retired, or
                        \* the place in reqs of the request it was made for
    reqs,               \* the searches awaiting the client, oldest first
    mounted,            \* the component is mounted
    lastOp,             \* history: the handler that ran last and what it did
    burst,              \* history: the setQuery calls still awaiting their search
    invoked,            \* a call of one of the synchronous functions or of a
                        \* client ranking operation, taken on its own
    returned,           \* what that call returned or threw, once it has run
    internalSelected,   \* useSelect: useState internalSelected
    isOpen,             \* useSelect: useState isOpen
    highlightedIndex,   \* useSelect: useState highlightedIndex
    explanation,        \* useTooltip: useState explanation
    isLoading,          \* useTooltip: useState isLoading
    explains,           \* useTooltip: the explain calls awaiting the client
    provider,           \* client: provider is non-null
    initializing        \* client: the initialize calls that have not returned

vars == <<hook, client, embeddingProvider, initialized, source, query, results,
          isSearching, error, debounceTimerRef, timers, lastQueryRef,
          lastTextRef, abortControllerRef, reqs, mounted, lastOp, burst,
          invoked, returned, internalSelected, isOpen, highlightedIndex,
          explanation, isLoading, explains, provider, initializing>>

clientVars == <<client, embeddingProvider, initialized>>
stateVars == <<query, results, isSearching, error>>
timerVars == <<debounceTimerRef, timers>>
refVars == <<lastQueryRef, lastTextRef, abortControllerRef, reqs>>
callVars == <<invoked, returned>>
dropdownVars == <<internalSelected, isOpen, highlightedIndex>>
tooltipVars == <<explanation, isLoading, explains>>
lifecycleVars == <<provider, initializing>>
\* what the search session of a controller leaves alone
restVars == <<callVars, dropdownVars, tooltipVars, lifecycleVars>>
\* no function is being called on its own
NoCall == [fn |-> "none"]
\* the call has not run yet
Pending == [done |-> FALSE]

\* ------------------------------------------------------------- the options
minQueryLength(h) == IF h = "useSearch" THEN 2 ELSE 1

Sources(h) == IF h = "useSearch" THEN Texts ELSE ItemLists

Ranking(q, src, path) == [q |-> q, src |-> src, path |-> path]

\* lastOp: op is the handler; kind the guard of search that decided, or how
\* the client call settled; via who called search, or how far the settled call
\* had got before its first await; q the argument of setQuery or of search, or
\* the query of the settled request, and n the setQuery calls a timer stood
\* for; stale whether the settled request had been superseded; err and got the
\* error or value the client call ended with; val what search returned; cb the
\* callback invoked
NoOp == [op |-> "init", kind |-> "none", via |-> "none", q |-> "", n |-> 0,
         stale |-> FALSE, err |-> NoError, got |-> NoResults,
         val |-> NoResults, cb |-> "none"]

NoBurst == [n |-> 0, q |-> "", age |-> 0]

\* ------------------------------------------------------ client: ranking ops
Resolve(v) == [ok |-> TRUE, val |-> v, err |-> NoError]
Reject(e) == [ok |-> FALSE, val |-> NoResults, err |-> e]

\* rawChunks.length === 0: of the texts modelled, only the empty one has no
\* character for a chunk
rawChunksEmpty(text) == text = ""

\* searchInText up to its first await: what the call does before (or instead
\* of) calling embedMany
searchInTextStart(text, ep, init, aborted) ==
    IF aborted THEN "aborted"
    ELSE IF rawChunksEmpty(text) THEN "empty"
    ELSE IF ~ep \/ ~init THEN "unavailable"
    ELSE "embed"

\* searchItems up to its first await
searchItemsStart(items, ep, init, aborted) ==
    IF Len(items) = 0 THEN "empty"
    ELSE IF aborted THEN "aborted"
    ELSE IF ep /\ init THEN "embed"
    ELSE "lexical"

NoSignal == "none"
CallerSignal == "signal"

\* the abortSignal argument of the embedMany call made for a caller whose
\* token is `signal`: embedMany({model, values}) passes none
embedManySignal(signal) == NoSignal

\* searchInText once embedMany has settled with `resp`
searchInTextFinish(q, text, resp) ==
    CASE resp = "ok" -> Resolve(Ranking(q, text, "embedding"))
      [] resp = "abort" -> Reject("AbortError")
      [] OTHER -> Reject("BackendFailure")

\* searchItems once embedMany has settled with `resp`: the catch rethrows an
\* AbortError and swallows the rest, which falls through to the lexical ranking
searchItemsFinish(q, items, resp) ==
    CASE resp = "ok" -> Resolve(Ranking(q, items, "embedding"))
      [] resp = "abort" -> Reject("AbortError")
      [] OTHER -> Resolve(Ranking(q, items, "lexical"))

\* the outcome of the client call of request r, embedMany having settled with
\* resp (resp is "none" when the call never reached embedMany)
ClientOutcome(h, r, resp) ==
    CASE r.call = "aborted" -> Reject("AbortError")
      [] r.call = "empty" -> Resolve(NoResults)
      [] r.call = "unavailable" -> Reject("NotInitialized")
      [] r.call = "lexical" -> Resolve(Ranking(r.q, r.src, "lexical"))
      [] OTHER -> IF h = "useSearch"
                  THEN searchInTextFinish(r.q, r.src, resp)
                  ELSE searchItemsFinish(r.q, r.src, resp)

\* deliberately wrong variants of the guards below, used to show that the
\* properties of the controllers depend on them
AlwaysCurrent(ref, id) == TRUE
NeverCurrent(ref, id) == FALSE
NoErrorIsAbort(err) == FALSE
KeepTimers(ts, ref) == ts

\* ------------------------------------------------- controller: the decisions
\* q.length < minQueryLength
TooShort(h, q) == Len(q) < minQueryLength(h)

\* the duplicate-query guard of search
SameAsLast(h, q, text, lastQ, lastT) ==
    IF h = "useSearch" THEN q = lastQ /\ text = lastT ELSE q = lastQ

\* what search returns when the duplicate-query guard hits
CachedReturn(h, res) == IF h = "useSearch" THEN res ELSE NoResults

\* a deliberately wrong variant of SearchGuard: the length of the query is
\* looked at before the client
ShortFirst(h, cl, q, text, lastQ, lastT) ==
    IF TooShort(h, q) THEN "short"
    ELSE IF ~cl THEN "noClient"
    ELSE IF SameAsLast(h, q, text, lastQ, lastT) THEN "same"
    ELSE "issue"

\* the guards of search, in order
SearchGuard(h, cl, q, text, lastQ, lastT) ==
    IF ~cl THEN "noClient"
    ELSE IF TooShort(h, q) THEN "short"
    ELSE IF SameAsLast(h, q, text, lastQ, lastT) THEN "same"
    ELSE "issue"

\* abortControllerRef.current !== abortController, after the await
StillCurrent(ref, id) == ref = id

\* abortControllerRef.current === abortController, in the finally block
FinallyCurrent(ref, id) == ref = id

\* err instanceof DOMException && err.name === "AbortError"
IsAbortError(err) == err = "AbortError"

\* clearTimeout(debounceTimerRef.current), guarded by the ref being non-null
ClearTimeout(ts, ref) == {t \in ts : ref = 0 \/ t.id # ref}

\* a fresh timer id.  An id is reused once no pending timer holds it; the
\* ref that may still hold it is overwritten with the new id in the same
\* handler, so the reuse changes nothing clearTimeout does
FreshId(used) == CHOOSE n \in 1..(Cardinality(used) + 1) : n \notin used

\* An AbortController is named by the place its request has in reqs; the
\* code only compares controllers for identity, so a settled request can be
\* dropped and the later ones renumbered.  Retired names the controller of a
\* request that has settled.
Retired == -1

Remove(rs, id) == SubSeq(rs, 1, id - 1) \o SubSeq(rs, id + 1, Len(rs))

Renumber(ref, id) ==
    IF ref = id THEN Retired ELSE IF ref > id THEN ref - 1 ELSE ref

\* useSelect as constructed: nothing selected, the dropdown closed
NoDropdown ==
    /\ internalSelected = "null"
    /\ isOpen = FALSE
    /\ highlightedIndex = -1

\* useTooltip as constructed
NoTooltip ==
    /\ explanation = "null"
    /\ isLoading = FALSE
    /\ explains = <<>>

\* the client once its one initialize() call has returned
Initialized ==
    /\ provider = TRUE
    /\ initializing = <<>>

Init ==
    /\ hook \in Hooks
    /\ client \in BOOLEAN
    /\ embeddingProvider \in BOOLEAN
    /\ initialized = TRUE
    /\ source \in Sources(hook)
    /\ query = ""
    /\ results = NoResults
    /\ isSearching = FALSE
    /\ error = NoError
    /\ debounceTimerRef = 0
    /\ timers = {}
    /\ lastQueryRef = ""
    /\ lastTextRef = ""
    /\ abortControllerRef = 0
    /\ reqs = <<>>
    /\ mounted = TRUE
    /\ lastOp = NoOp
    /\ burst = NoBurst
    /\ invoked = NoCall
    /\ returned = Pending
    /\ NoDropdown
    /\ NoTooltip
    /\ Initialized

\* -------------------------------------------------------------- the handlers
Min(a, b) == IF a < b THEN a ELSE b

Op(op, kind) ==
    [NoOp EXCEPT !.op = op, !.kind = kind]

\* new AbortController(); client.searchInText / client.searchItems is called
\* with its signal, which is not aborted then.  The record holds the state of
\* the call: aborted is signal.aborted, call how far the client got before its
\* first await, abortSignal what it handed to embedMany
NewRequest(h, q, text, ep, init) ==
    LET call == IF h = "useSearch"
                THEN searchInTextStart(text, ep, init, FALSE)
                ELSE searchItemsStart(text, ep, init, FALSE)
    IN [q |-> q, src |-> text, aborted |-> FALSE, superseded |-> FALSE,
        call |-> call,
        abortSignal |-> IF call = "embed" THEN embedManySignal(CallerSignal)
                        ELSE NoSignal]

\* abortControllerRef.current.abort(), when the ref is non-null
Abort(rs, ref) ==
    [i \in DOMAIN rs |-> [rs[i] EXCEPT !.aborted = @ \/ i = ref]]

\* history: a newer request is issued, the requests in flight are superseded
Supersede(rs) == [i \in DOMAIN rs |-> [rs[i] EXCEPT !.superseded = TRUE]]

\* search(q) up to its await, the text or items prop being `text`
search(q, text, via) ==
    LET g == SearchGuard(hook, client, q, text, lastQueryRef, lastTextRef)
        id == Len(reqs) + 1
        new == NewRequest(hook, q, text, embeddingProvider, initialized)
        old == Supersede(Abort(reqs, abortControllerRef))
    IN /\ g = "issue" => Len(reqs) < MaxInFlight
       /\ results' = IF g = "short" THEN NoResults ELSE results
       /\ isSearching' = IF g = "issue" THEN TRUE ELSE isSearching
       /\ error' = IF g = "issue" THEN NoError ELSE error
       /\ lastQueryRef' = IF g = "issue" THEN q ELSE lastQueryRef
       /\ lastTextRef' = IF g = "issue" /\ hook = "useSearch" THEN text
                         ELSE lastTextRef
       /\ abortControllerRef' = IF g = "issue" THEN id ELSE abortControllerRef
       /\ reqs' = IF g = "issue" THEN Append(old, new) ELSE reqs
       /\ lastOp' = [Op("search", g) EXCEPT
                        !.via = via,
                        !.q = q,
                        !.n = IF via = "timer" THEN burst.n ELSE 0,
                        !.val = IF g = "same" THEN CachedReturn(hook, results)
                                ELSE NoResults]

\* search(q) called by the consumer (useSearch returns search; useSelect
\* does not)
ManualSearch(q) ==
    /\ mounted
    /\ hook = "useSearch"
    /\ search(q, source, "manual")
    /\ UNCHANGED <<hook, clientVars, source, query, timerVars, mounted, burst>>

\* setQuery(newQuery)
SetQuery(q) ==
    LET cleared == ClearTimeout(timers, debounceTimerRef)
        id == FreshId({t.id : t \in cleared})
    IN /\ mounted
       /\ query' = q
       /\ IF TooShort(hook, q)
          THEN /\ results' = NoResults
               /\ timers' = cleared
               /\ debounceTimerRef' = debounceTimerRef
               /\ burst' = NoBurst
          ELSE /\ results' = results
               /\ timers' = cleared \cup
                     {[id |-> id, q |-> q, left |-> DebounceTicks]}
               /\ debounceTimerRef' = id
               /\ burst' = [n |-> Min(burst.n + 1, 2), q |-> q, age |-> 0]
       /\ lastOp' = [Op("setQuery", IF TooShort(hook, q) THEN "short" ELSE "long")
                        EXCEPT !.q = q]
       /\ UNCHANGED <<hook, clientVars, source, isSearching, error, refVars,
                      mounted>>

\* the clock advances by one tick; a timer that is due fires first
Tick ==
    /\ timers # {}
    /\ \A t \in timers : t.left > 0
    /\ timers' = {[t EXCEPT !.left = @ - 1] : t \in timers}
    /\ burst' = IF burst.n > 0
                THEN [burst EXCEPT !.age = Min(@ + 1, DebounceTicks)]
                ELSE burst
    /\ lastOp' = Op("tick", "none")
    /\ UNCHANGED <<hook, clientVars, source, stateVars, debounceTimerRef,
                   refVars, mounted>>

\* the callback of setTimeout: searchRef.current(newQuery)
TimerFire(t) ==
    /\ t \in timers
    /\ t.left = 0
    /\ timers' = timers \ {t}
    /\ search(t.q, source, "timer")
    /\ burst' = IF timers' = {} THEN NoBurst ELSE burst
    /\ UNCHANGED <<hook, clientVars, source, query, debounceTimerRef, mounted>>

\* clear() of useSearch; clearSearch() of useSelect, which its clear() runs
\* after select(null) has emptied the query
Clear ==
    /\ mounted
    /\ timers' = ClearTimeout(timers, debounceTimerRef)
    /\ query' = ""
    /\ results' = NoResults
    /\ error' = NoError
    /\ lastQueryRef' = ""
    /\ burst' = NoBurst
    /\ lastOp' = Op("clear", "none")
    /\ UNCHANGED <<hook, clientVars, source, isSearching, debounceTimerRef,
                   lastTextRef, abortControllerRef, reqs, mounted>>

\* the cleanup of the mount effect; running it again changes nothing more
Unmount ==
    /\ timers' = ClearTimeout(timers, debounceTimerRef)
    /\ mounted' = FALSE
    /\ burst' = NoBurst
    /\ lastOp' = Op("unmount", "none")
    /\ UNCHANGED <<hook, clientVars, source, stateVars, debounceTimerRef,
                   refVars>>

\* the condition of the effect that re-searches when the text / items change
ReSearch(h, cl, q, text, lastT) ==
    IF h = "useSearch"
    THEN ~TooShort(h, q) /\ cl /\ text # lastT
    ELSE ~TooShort(h, q) /\ cl

\* the text / items prop changes to s and the effect on it runs
SourceChange(s) ==
    /\ mounted
    /\ s # source
    /\ source' = s
    /\ IF ReSearch(hook, client, query, s, lastTextRef)
       THEN search(query, s, "effect")
       ELSE /\ lastOp' = Op("render", "none")
            /\ UNCHANGED <<results, isSearching, error, refVars>>
    /\ UNCHANGED <<hook, clientVars, query, timerVars, mounted, burst>>

\* the continuation of search(q) after its await: the client call of request
\* id settles, embedMany having settled with resp
Settle(id, resp) ==
    /\ id \in DOMAIN reqs
    /\ IF reqs[id].call = "embed"
       THEN /\ resp \in Responses
            \* a collaborator given a signal rejects once the signal is aborted
            /\ (reqs[id].abortSignal # NoSignal /\ reqs[id].aborted)
                   => resp = "abort"
       ELSE resp = "none"
    /\ LET r == reqs[id]
           out == ClientOutcome(hook, r, resp)
           cur == StillCurrent(abortControllerRef, id)
           commit == out.ok /\ cur
           fail == ~out.ok /\ ~IsAbortError(out.err)
       IN /\ results' = IF commit THEN out.val ELSE results
          /\ error' = IF fail THEN out.err ELSE error
          /\ isSearching' = IF FinallyCurrent(abortControllerRef, id)
                            THEN FALSE ELSE isSearching
          /\ lastOp' = [Op("settle", IF out.ok THEN "resolve" ELSE "reject")
                        EXCEPT
                        !.via = r.call,
                        !.q = r.q,
                        !.stale = r.superseded,
                        !.err = out.err,
                        !.got = out.val,
                        !.val = IF commit THEN out.val ELSE NoResults,
                        !.cb = IF commit /\ hook = "useSearch" THEN "onResults"
                               ELSE IF fail THEN "onError" ELSE "none"]
    \* the request leaves reqs and the controllers are renumbered
    /\ reqs' = Remove(reqs, id)
    /\ abortControllerRef' = Renumber(abortControllerRef, id)
    /\ UNCHANGED <<hook, clientVars, source, query, timerVars, lastQueryRef,
                   lastTextRef, mounted, burst>>

\* the context provides the client
ClientReady ==
    /\ ~client
    /\ client' = TRUE
    /\ lastOp' = Op("clientReady", "none")
    /\ UNCHANGED <<hook, embeddingProvider, initialized, source, stateVars,
                   timerVars, refVars, mounted, burst>>

Next ==
    \/ \E q \in Queries(hook) : SetQuery(q) /\ UNCHANGED restVars
    \/ \E q \in Queries(hook) : ManualSearch(q) /\ UNCHANGED restVars
    \/ Tick /\ UNCHANGED restVars
    \/ \E t \in timers : TimerFire(t) /\ UNCHANGED restVars
    \/ Clear /\ UNCHANGED restVars
    \/ Unmount /\ UNCHANGED restVars
    \/ \E s \in Sources(hook) : SourceChange(s) /\ UNCHANGED restVars
    \/ \E id \in DOMAIN reqs, resp \in Responses \cup {"none"} :
            Settle(id, resp) /\ UNCHANGED restVars
    \/ ClientReady /\ UNCHANGED restVars

Spec == Init /\ [][Next]_vars

\* The controllers under a consumer that only types: the client is there from
\* the start, the consumer calls nothing but setQuery, the clock runs, the
\* timers fire, and every client call that settles resolves.
TypingInit == Init /\ client

TypingNext ==
    \/ \E q \in Queries(hook) : SetQuery(q) /\ UNCHANGED restVars
    \/ Tick /\ UNCHANGED restVars
    \/ \E t \in timers : TimerFire(t) /\ UNCHANGED restVars
    \/ \E id \in DOMAIN reqs, resp \in Responses \cup {"none"} :
            /\ Settle(id, resp)
            /\ ClientOutcome(hook, reqs[id], resp).ok
            /\ UNCHANGED restVars

TypingSpec == TypingInit /\ [][TypingNext]_vars

\* the client call of some request in flight settles
SettleSome ==
    \E id \in DOMAIN reqs, resp \in Responses \cup {"none"} :
        Settle(id, resp) /\ UNCHANGED restVars

\* the controllers when every client call settles in the end: a promise that
\* is awaited is resolved or rejected after finitely many other steps
FairSpec == Spec /\ WF_vars(SettleSome)

\* --------------------------------------------------- useSelect: the dropdown
\* the length of a ranking of items: searchItems scores every item, on the
\* embedding path and on the lexical one, and with minScore 0 and maxResults 0
\* (the defaults) search keeps them all
rankedLength(res) == IF res = NoResults THEN 0 ELSE Len(res.src)

\* displayOptions.length: every item while the query is empty and the dropdown
\* open, the results otherwise
displayLength(q, open, items, res) ==
    IF q = "" /\ open THEN Len(items) ELSE rankedLength(res)

\* the items displayOptions[i] can be: a ranking holds its items in the order
\* of their scores, which is left open here
displayItem(q, open, items, res, i) ==
    IF q = "" /\ open THEN {items[i + 1]}
    ELSE {res.src[j] : j \in DOMAIN res.src}

\* setQuery(newQuery) of useSelect: after the timer is set, a non-empty query
\* opens the dropdown
SelectSetQuery(q) ==
    /\ SetQuery(q)
    /\ isOpen' = IF ~TooShort(hook, q) /\ q # "" THEN TRUE ELSE isOpen
    /\ UNCHANGED <<internalSelected, highlightedIndex>>

\* what select(item) sets, selected being uncontrolled and closeOnSelect true;
\* item.label is the item itself, the label of null the empty string
select(item) ==
    /\ internalSelected' = item
    /\ query' = IF item = "null" THEN "" ELSE item
    /\ isOpen' = FALSE
    /\ highlightedIndex' = -1

searchVars ==
    <<hook, clientVars, source, results, isSearching, error, timerVars,
      refVars, mounted, burst>>

\* select(item), called by the consumer or by the click on an option
Select(item) ==
    /\ mounted
    /\ select(item)
    /\ lastOp' = Op("select", "none")
    /\ UNCHANGED searchVars

\* open()
Open ==
    /\ mounted
    /\ isOpen' = TRUE
    /\ highlightedIndex' = -1
    /\ lastOp' = Op("open", "none")
    /\ UNCHANGED <<searchVars, query, internalSelected>>

\* close()
Close ==
    /\ mounted
    /\ isOpen' = FALSE
    /\ highlightedIndex' = -1
    /\ lastOp' = Op("close", "none")
    /\ UNCHANGED <<searchVars, query, internalSelected>>

\* toggle()
Toggle ==
    /\ mounted
    /\ isOpen' = ~isOpen
    /\ highlightedIndex' = -1
    /\ lastOp' = Op("toggle", "none")
    /\ UNCHANGED <<searchVars, query, internalSelected>>

\* highlightPrevious()
HighlightPrevious ==
    LET length == displayLength(query, isOpen, source, results)
    IN /\ mounted
       /\ highlightedIndex' = IF highlightedIndex <= 0 THEN length - 1
                              ELSE highlightedIndex - 1
       /\ lastOp' = Op("highlightPrevious", "none")
       /\ UNCHANGED <<searchVars, query, internalSelected, isOpen>>

\* highlightNext()
HighlightNext ==
    LET length == displayLength(query, isOpen, source, results)
    IN /\ mounted
       /\ highlightedIndex' = IF highlightedIndex >= length - 1 THEN 0
                              ELSE highlightedIndex + 1
       /\ lastOp' = Op("highlightNext", "none")
       /\ UNCHANGED <<searchVars, query, internalSelected, isOpen>>

\* selectHighlighted()
SelectHighlighted ==
    LET length == displayLength(query, isOpen, source, results)
    IN /\ mounted
       /\ IF highlightedIndex >= 0 /\ highlightedIndex < length
          THEN \E item \in displayItem(query, isOpen, source, results,
                                       highlightedIndex) : select(item)
          ELSE UNCHANGED <<query, dropdownVars>>
       /\ lastOp' = Op("selectHighlighted", "none")
       /\ UNCHANGED searchVars

\* useSelect under a client that is ready; the consumer types, opens and
\* closes the dropdown, moves the highlight and selects, while the timers
\* fire and the searches settle
SelectInit == Init /\ hook = "useSelect" /\ client /\ embeddingProvider

SelectNext ==
    \/ \E q \in Queries(hook) :
            SelectSetQuery(q) /\ UNCHANGED <<callVars, tooltipVars, lifecycleVars>>
    \/ Tick /\ UNCHANGED restVars
    \/ \E t \in timers : TimerFire(t) /\ UNCHANGED restVars
    \/ \E id \in DOMAIN reqs, resp \in Responses \cup {"none"} :
            Settle(id, resp) /\ UNCHANGED restVars
    \/ \E item \in {source[i] : i \in DOMAIN source} \cup {"null"} :
            Select(item) /\ UNCHANGED <<callVars, tooltipVars, lifecycleVars>>
    \/ Open /\ UNCHANGED <<callVars, tooltipVars, lifecycleVars>>
    \/ Close /\ UNCHANGED <<callVars, tooltipVars, lifecycleVars>>
    \/ Toggle /\ UNCHANGED <<callVars, tooltipVars, lifecycleVars>>
    \/ HighlightPrevious /\ UNCHANGED <<callVars, tooltipVars, lifecycleVars>>
    \/ HighlightNext /\ UNCHANGED <<callVars, tooltipVars, lifecycleVars>>
    \/ SelectHighlighted /\ UNCHANGED <<callVars, tooltipVars, lifecycleVars>>

SelectSpec == SelectInit /\ [][SelectNext]_vars

\* ------------------------------------------------------------- useTooltip
\* the text prop: none that is worth explaining, or one of two texts
TooltipTexts == {"", "t1", "t2"}

NoExplanation == "null"

\* result.output of client.explain(text), when it resolves
Output(text) == IF text = "t1" THEN "explanation of t1" ELSE "explanation of t2"

\* !text?.trim(), for the texts above
blank(text) == text = ""

\* the option fetchOnChange; when the text prop is blank the effect does
\* nothing, as it does with the option off
fetchOnChange == TRUE

\* the guards of explain, in order
ExplainGuard(cl, text, lastT, shown) ==
    IF ~cl \/ blank(text) THEN "none"
    ELSE IF text = lastT /\ shown # NoExplanation THEN "same"
    ELSE "issue"

\* the effect on [initialText, fetchOnChange, debounceMs, explain] with its
\* cleanup: the timer set by the run before is cleared, and unless the text is
\* blank a timer is set for explain(initialText)
FetchOnChange(text) ==
    LET cleared == ClearTimeout(timers, debounceTimerRef)
        id == FreshId({t.id : t \in cleared})
    IN IF fetchOnChange /\ ~blank(text)
       THEN /\ timers' = cleared \cup
                  {[id |-> id, q |-> text, left |-> DebounceTicks]}
            /\ debounceTimerRef' = id
       ELSE /\ timers' = cleared
            /\ debounceTimerRef' = debounceTimerRef

\* explain(text) up to its await; the calls in flight before it are marked as
\* no longer the latest (history)
explain(text, via) ==
    LET g == ExplainGuard(client, text, lastTextRef, explanation)
    IN /\ g = "issue" => Len(explains) < MaxInFlight
       /\ isLoading' = IF g = "issue" THEN TRUE ELSE isLoading
       /\ error' = IF g = "issue" THEN NoError ELSE error
       /\ explains' = IF g = "issue"
                      THEN Append([i \in DOMAIN explains |->
                                      [explains[i] EXCEPT !.superseded = TRUE]],
                                  [text |-> text, superseded |-> FALSE])
                      ELSE explains
       /\ lastOp' = [Op("explain", g) EXCEPT !.via = via, !.q = text]

unusedVars ==
    <<clientVars, query, results, isSearching, lastQueryRef,
      abortControllerRef, reqs, mounted, burst>>

\* explain(text) called by the consumer
Explain(text) ==
    /\ explain(text, "manual")
    /\ UNCHANGED <<hook, unusedVars, source, explanation, lastTextRef, timerVars>>

\* the callback of setTimeout: explain(initialText)
TooltipTimerFire(t) ==
    /\ t \in timers
    /\ t.left = 0
    /\ timers' = timers \ {t}
    /\ explain(t.q, "timer")
    /\ UNCHANGED <<hook, unusedVars, source, explanation, lastTextRef,
                   debounceTimerRef>>

\* the continuation of explain(text) after its await: client.explain resolves
\* (ok) or rejects.  A new explanation makes a new explain callback, on which
\* the effect runs again
ExplainSettle(i, ok) ==
    /\ i \in DOMAIN explains
    /\ LET c == explains[i]
       IN /\ explanation' = IF ok THEN Output(c.text) ELSE explanation
          /\ lastTextRef' = IF ok THEN c.text ELSE lastTextRef
          /\ error' = IF ok THEN error ELSE "BackendFailure"
          /\ isLoading' = FALSE
          /\ lastOp' = [Op("explained", IF ok THEN "resolve" ELSE "reject")
                        EXCEPT !.q = c.text,
                               !.stale = c.superseded,
                               !.cb = IF ok THEN "onExplain" ELSE "onError"]
    /\ explains' = Remove(explains, i)
    /\ IF explanation' # explanation
       THEN FetchOnChange(source)
       ELSE UNCHANGED timerVars
    /\ UNCHANGED <<hook, unusedVars, source>>

\* the text prop changes to s and the effect runs
TextChange(s) ==
    /\ s # source
    /\ source' = s
    /\ FetchOnChange(s)
    /\ lastOp' = Op("render", "none")
    /\ UNCHANGED <<hook, unusedVars, error, lastTextRef, tooltipVars>>

\* clear() of useTooltip
TooltipClear ==
    /\ explanation' = NoExplanation
    /\ error' = NoError
    /\ IF explanation # NoExplanation
       THEN FetchOnChange(source)
       ELSE UNCHANGED timerVars
    /\ lastOp' = Op("clear", "none")
    /\ UNCHANGED <<hook, unusedVars, source, lastTextRef, isLoading, explains>>

\* useTooltip as constructed, under a client that is ready; with a text worth
\* explaining the effect has set its first timer
TooltipInit ==
    /\ hook = "useTooltip"
    /\ client = TRUE
    /\ embeddingProvider = FALSE
    /\ initialized = TRUE
    /\ source \in TooltipTexts
    /\ query = ""
    /\ results = NoResults
    /\ isSearching = FALSE
    /\ error = NoError
    /\ IF fetchOnChange /\ ~blank(source)
       THEN /\ debounceTimerRef = 1
            /\ timers = {[id |-> 1, q |-> source, left |-> DebounceTicks]}
       ELSE /\ debounceTimerRef = 0
            /\ timers = {}
    /\ lastQueryRef = ""
    /\ lastTextRef = "null"
    /\ abortControllerRef = 0
    /\ reqs = <<>>
    /\ mounted = TRUE
    /\ lastOp = NoOp
    /\ burst = NoBurst
    /\ invoked = NoCall
    /\ returned = Pending
    /\ NoDropdown
    /\ NoTooltip
    /\ Initialized

TooltipNext ==
    \/ \E text \in TooltipTexts :
            Explain(text) /\ UNCHANGED <<callVars, dropdownVars, lifecycleVars>>
    \/ Tick /\ UNCHANGED restVars
    \/ \E t \in timers :
            TooltipTimerFire(t) /\ UNCHANGED <<callVars, dropdownVars, lifecycleVars>>
    \/ \E i \in DOMAIN explains, ok \in BOOLEAN :
            ExplainSettle(i, ok) /\ UNCHANGED <<callVars, dropdownVars, lifecycleVars>>
    \/ \E s \in TooltipTexts :
            TextChange(s) /\ UNCHANGED <<callVars, dropdownVars, lifecycleVars>>
    \/ TooltipClear /\ UNCHANGED <<callVars, dropdownVars, lifecycleVars>>

TooltipSpec == TooltipInit /\ [][TooltipNext]_vars

\* --------------------------------------------------- client: the lifecycle
\* the awaits of initialize(), in order; the client is created with an
\* embeddingModelId, and both providers have an initialize of their own
Awaits ==
    <<"createProvider", "provider.initialize", "createEmbeddingProvider",
      "embeddingProvider.initialize">>

\* initialize() is called: it runs up to its first await.  disposed is
\* history: dispose() has run since the call began
Initialize ==
    /\ Len(initializing) < MaxInFlight
    /\ initializing' = Append(initializing, [at |-> 1, disposed |-> FALSE])
    /\ lastOp' = Op("initialize", "start")
    /\ UNCHANGED <<provider, embeddingProvider, initialized>>

\* the await that call i of initialize() stands at settles; when it rejects
\* the call throws, when the last one resolves the call sets initialized
InitializeStep(i, ok) ==
    /\ i \in DOMAIN initializing
    /\ LET c == initializing[i]
           last == c.at = Len(Awaits)
       IN /\ provider' = IF ok /\ Awaits[c.at] = "createProvider"
                         THEN TRUE ELSE provider
          /\ embeddingProvider' =
                IF ok /\ Awaits[c.at] = "createEmbeddingProvider"
                THEN TRUE ELSE embeddingProvider
          /\ initialized' = IF ok /\ last THEN TRUE ELSE initialized
          /\ initializing' = IF ok /\ ~last
                             THEN [initializing EXCEPT ![i].at = @ + 1]
                             ELSE Remove(initializing, i)
          /\ lastOp' = [Op("initialize", IF ~ok THEN "throw"
                                         ELSE IF last THEN "done" ELSE "await")
                        EXCEPT !.via = Awaits[c.at], !.stale = c.disposed]

\* dispose()
Dispose ==
    /\ provider' = FALSE
    /\ initialized' = FALSE
    /\ initializing' = [i \in DOMAIN initializing |->
                           [initializing[i] EXCEPT !.disposed = TRUE]]
    /\ lastOp' = Op("dispose", "none")
    /\ UNCHANGED embeddingProvider

\* searchInText(q, text) is called with a text that has chunks and a signal
\* that is not aborted: how far it gets before its first await
RankText ==
    /\ lastOp' = [Op("searchInText",
                     searchInTextStart("One. Two.", embeddingProvider,
                                       initialized, FALSE))
                  EXCEPT !.stale = ~initialized]
    /\ UNCHANGED <<provider, embeddingProvider, initialized, initializing>>

\* searchItems(q, items) is called with items and a signal that is not aborted
RankItems ==
    /\ lastOp' = [Op("searchItems",
                     searchItemsStart(<<"Cat", "Dog">>, embeddingProvider,
                                      initialized, FALSE))
                  EXCEPT !.stale = ~initialized]
    /\ UNCHANGED <<provider, embeddingProvider, initialized, initializing>>

noHook ==
    <<hook, client, source, stateVars, timerVars, refVars, mounted, burst,
      callVars, dropdownVars, tooltipVars>>

\* the client as createClient returns it; no hook is mounted on it
ClientInit ==
    /\ hook = "none"
    /\ client = FALSE
    /\ provider = FALSE
    /\ embeddingProvider = FALSE
    /\ initialized = FALSE
    /\ initializing = <<>>
    /\ source = <<>>
    /\ query = ""
    /\ results = NoResults
    /\ isSearching = FALSE
    /\ error = NoError
    /\ debounceTimerRef = 0
    /\ timers = {}
    /\ lastQueryRef = ""
    /\ lastTextRef = ""
    /\ abortControllerRef = 0
    /\ reqs = <<>>
    /\ mounted = FALSE
    /\ lastOp = NoOp
    /\ burst = NoBurst
    /\ invoked = NoCall
    /\ returned = Pending
    /\ NoDropdown
    /\ NoTooltip

ClientNext ==
    \/ Initialize /\ UNCHANGED noHook
    \/ \E i \in DOMAIN initializing, ok \in BOOLEAN :
            InitializeStep(i, ok) /\ UNCHANGED noHook
    \/ Dispose /\ UNCHANGED noHook
    \/ RankText /\ UNCHANGED noHook
    \/ RankItems /\ UNCHANGED noHook

ClientSpec == ClientInit /\ [][ClientNext]_vars

\* ------------------------------------------------------------------ claims
\* a step in which the client call of a request settles
SettleStep == Len(reqs') < Len(reqs)

\* C1: last request wins.  A request superseded while in flight never commits
\* its result, whenever it settles; and once the most recently issued request
\* has resolved, the visible results are the ones it resolved with.
C1_LastRequestWins ==
    /\ [][(SettleStep /\ lastOp'.stale) => results' = results]_vars
    /\ [](lastOp.op = "settle" /\ ~lastOp.stale /\ lastOp.kind = "resolve"
            => results = lastOp.got)

\* a superseded request resolves with a ranking after the newer request has
\* committed its own, and the newer ranking stays visible
C1_Witness ==
    /\ lastOp.op = "settle" /\ lastOp.stale /\ lastOp.kind = "resolve"
    /\ lastOp.got # NoResults
    /\ results # NoResults /\ results # lastOp.got
    /\ reqs = <<>>

\* C2 (as claimed): a superseded request that settles, by resolving or by
\* rejecting with any error, changes none of results, error, isSearching and
\* invokes neither onResults nor onError.
C2_SupersededSettleIsSilent ==
    [][(SettleStep /\ lastOp'.stale)
         => /\ results' = results
            /\ error' = error
            /\ isSearching' = isSearching
            /\ lastOp'.cb = "none"]_vars

\* C3 (as claimed): every embedMany call in flight was made with the caller's
\* cancellation token.
C3_SignalReachesEmbedding ==
    \A i \in DOMAIN reqs :
        reqs[i].call = "embed" => reqs[i].abortSignal = CallerSignal

\* C4 (as claimed): a ranking operation whose token was cancelled while its
\* embedding call was pending ends with the cancellation outcome, never with a
\* ranking.
C4_CancelledNeverRanks ==
    (lastOp.op = "settle" /\ lastOp.via = "embed" /\ lastOp.stale)
        => (lastOp.kind = "reject" /\ lastOp.err = "AbortError")

\* C5 (as claimed): after disposal no debounce timer is pending, every request
\* in flight is cancelled, and a request that settles commits nothing.
C5_DisposalCancels ==
    ~mounted =>
        /\ timers = {}
        /\ \A i \in DOMAIN reqs : reqs[i].aborted
        /\ lastOp.op = "settle" => (lastOp.cb = "none" /\ lastOp.val = NoResults)

\* a step in which a debounce timer fires and calls search
FireStep == Cardinality(timers') < Cardinality(timers) /\ lastOp'.op = "search"

\* C6: debounce coalescing.  While a burst of setQuery calls with long enough
\* values is pending, exactly one timer is scheduled; it carries the value of
\* the last call and is due debounceMs after that call.  When it fires it
\* searches that last value, and no timer is left to search an earlier one.
C6_DebounceCoalesces ==
    /\ [](burst.n = 0 => timers = {})
    /\ [](burst.n > 0 =>
            \E t \in timers :
                /\ timers = {t}
                /\ t.q = burst.q
                /\ t.left = DebounceTicks - burst.age)
    /\ [][FireStep =>
            /\ burst.n > 0
            /\ burst.age = DebounceTicks
            /\ lastOp'.via = "timer"
            /\ lastOp'.q = burst.q
            /\ timers' = {}]_vars

\* a timer that stood for at least two setQuery calls has fired and issued
\* the one search of the burst
C6_Witness ==
    /\ lastOp.op = "search" /\ lastOp.via = "timer" /\ lastOp.kind = "issue"
    /\ lastOp.n = 2
    /\ lastOp.q = query
    /\ Len(reqs) = 1

\* C7 (as claimed): right after setQuery with a value shorter than the minimum
\* the query is that value, results are empty, no timer is pending and the
\* controller is not searching; right after setQuery with a long enough value
\* exactly one timer is pending, for that value.
C7_SetQueryShortIsIdle ==
    lastOp.op = "setQuery" =>
        /\ query = lastOp.q
        /\ lastOp.kind = "short" =>
              (results = NoResults /\ timers = {} /\ ~isSearching)
        /\ lastOp.kind = "long" =>
              \E t \in timers : timers = {t} /\ t.q = query

\* C8 (as claimed): a search deduplicated against the last issued search
\* returns the result of that search: never the ranking of another query or
\* text, and the committed ranking when there is one.
C8_DedupedReturnsCached ==
    (lastOp.op = "search" /\ lastOp.kind = "same") =>
        /\ lastOp.val # NoResults =>
              /\ lastOp.val.q = lastQueryRef
              /\ hook = "useSearch" => lastOp.val.src = lastTextRef
        /\ (/\ results # NoResults
            /\ results.q = lastQueryRef
            /\ hook = "useSearch" => results.src = lastTextRef)
              => lastOp.val = results

\* C9: when the latest request fails with an error that is not a cancellation,
\* the error is recorded and reported, the controller stops searching, the
\* results stay what they were, and a search for another query would be issued.
C9_FailureRecorded ==
    /\ []((/\ lastOp.op = "settle" /\ lastOp.kind = "reject"
           /\ ~lastOp.stale /\ lastOp.err # "AbortError")
            => /\ error = lastOp.err
               /\ error # NoError
               /\ lastOp.cb = "onError"
               /\ ~isSearching
               /\ \E q \in Queries(hook) :
                     SearchGuard(hook, client, q, source,
                                 lastQueryRef, lastTextRef) = "issue")
    /\ [][(/\ SettleStep /\ lastOp'.kind = "reject"
           /\ ~lastOp'.stale /\ lastOp'.err # "AbortError")
            => results' = results]_vars

\* the latest request has failed while an earlier ranking was on display
C9_Witness ==
    /\ lastOp.op = "settle" /\ lastOp.kind = "reject"
    /\ ~lastOp.stale /\ lastOp.err = "BackendFailure"
    /\ results # NoResults
    /\ error = "BackendFailure"

\* C10: the error field never holds a cancellation.  A request that ends with
\* a cancellation returns the empty list, invokes no callback and leaves
\* results and error as they were.
C10_CancellationIsSilent ==
    /\ [](error # "AbortError")
    /\ []((lastOp.op = "settle" /\ lastOp.err = "AbortError")
            => (lastOp.val = NoResults /\ lastOp.cb = "none"))
    /\ [][(SettleStep /\ lastOp'.err = "AbortError")
            => (results' = results /\ error' = error)]_vars

\* the latest request has ended with a cancellation while an earlier ranking
\* was on display
C10_Witness ==
    /\ lastOp.op = "settle" /\ lastOp.err = "AbortError"
    /\ ~lastOp.stale
    /\ results # NoResults
    /\ ~isSearching

\* ---------------------------------------------------------------- strings
\* A string is the sequence of its characters; an offset counts characters
\* from 0, as String.prototype.slice and RegExp match.index do.
IsSpace(c) == c \in {" ", "\n"}
IsTerminator(c) == c \in {".", "!", "?"}

\* text.slice(from, to)
slice(text, from, to) == SubSeq(text, from + 1, to)

\* deliberately wrong variants of the string functions below
noTrim(s) == s
indexOfFromStart(text, sub, offset) ==
    LET found == {i \in 0..(Len(text) - Len(sub)) :
                     slice(text, i, i + Len(sub)) = sub}
    IN IF found = {} THEN -1 ELSE CHOOSE i \in found : \A j \in found : i <= j

RECURSIVE trimStart(_)
trimStart(s) ==
    IF s # <<>> /\ IsSpace(Head(s)) THEN trimStart(Tail(s)) ELSE s

RECURSIVE trimEnd(_)
trimEnd(s) ==
    IF s # <<>> /\ IsSpace(s[Len(s)]) THEN trimEnd(SubSeq(s, 1, Len(s) - 1))
    ELSE s

\* String.prototype.trim
trim(s) == trimEnd(trimStart(s))

\* the least member of a non-empty set of integers
Least(S) == CHOOSE i \in S : \A j \in S : i <= j

\* text.indexOf(sub, offset): the first offset at or after `offset` where sub
\* occurs in text, -1 when there is none
indexOf(text, sub, offset) ==
    LET found == {i \in offset..(Len(text) - Len(sub)) :
                     slice(text, i, i + Len(sub)) = sub}
    IN IF found = {} THEN -1 ELSE Least(found)

\* -------------------------------------------------------------- the chunker
\* text.matchAll(/[^.!?]*[.!?]+/g) resumed at offset `from`: a match runs from
\* where the previous one ended through the next run of terminators; no
\* terminator ahead, no further match
RECURSIVE matchAll(_, _)
matchAll(text, from) ==
    LET terms == {i \in (from + 1)..Len(text) : IsTerminator(text[i])}
    IN IF terms = {} THEN <<>>
       ELSE LET first == Least(terms)
                after == {i \in first..Len(text) : ~IsTerminator(text[i])}
                end == IF after = {} THEN Len(text) ELSE Least(after) - 1
            IN <<[index |-> from, match |-> slice(text, from, end)]>>
                   \o matchAll(text, end)

NonEmptyChunk(c) == Len(c.text) > 0

chunkBySentences(text) ==
    LET ms == matchAll(text, 0)
        all == [i \in DOMAIN ms |->
                   [text |-> trim(ms[i].match),
                    startOffset |-> ms[i].index,
                    endOffset |-> ms[i].index + Len(ms[i].match)]]
        chunks == SelectSeq(all, NonEmptyChunk)
        lastEnd == IF chunks = <<>> THEN 0 ELSE chunks[Len(chunks)].endOffset
        remaining == trim(slice(text, lastEnd, Len(text)))
    IN IF lastEnd < Len(text) /\ Len(remaining) > 0
       THEN Append(chunks, [text |-> remaining,
                            startOffset |-> lastEnd,
                            endOffset |-> Len(text)])
       ELSE chunks

\* text.split(/\n\n+/) resumed at offset `from`: the pieces between runs of two
\* or more newlines; a text that starts or ends with such a run has an empty
\* first or last piece
RECURSIVE split(_, _)
split(text, from) ==
    LET seps == {i \in (from + 1)..(Len(text) - 1) :
                    text[i] = "\n" /\ text[i + 1] = "\n"}
    IN IF seps = {} THEN <<slice(text, from, Len(text))>>
       ELSE LET first == Least(seps)
                after == {i \in first..Len(text) : text[i] # "\n"}
                end == IF after = {} THEN Len(text) ELSE Least(after) - 1
            IN <<slice(text, from, first - 1)>> \o split(text, end)

\* the loop of chunkByParagraphs from paragraph i on, `offset` being where
\* the previous chunk ended
RECURSIVE paragraphChunks(_, _, _, _)
paragraphChunks(text, paragraphs, i, offset) ==
    IF i > Len(paragraphs) THEN <<>>
    ELSE LET para == paragraphs[i]
             trimmed == trim(para)
             startOffset == indexOf(text, para, offset)
         IN IF Len(trimmed) > 0
            THEN <<[text |-> trimmed,
                    startOffset |-> startOffset,
                    endOffset |-> startOffset + Len(para)]>>
                     \o paragraphChunks(text, paragraphs, i + 1,
                                        startOffset + Len(para))
            ELSE paragraphChunks(text, paragraphs, i + 1, offset)

chunkByParagraphs(text) == paragraphChunks(text, split(text, 0), 1, 0)

chunk(chunkStrategy, text) ==
    IF chunkStrategy = "paragraphs" THEN chunkByParagraphs(text)
    ELSE chunkBySentences(text)

\* ---------------------------------------------------- the highlight projector
\* [...results].sort((a, b) => a.startOffset - b.startOffset): Array.sort is
\* stable, so a chunk goes behind the chunks that do not start after it
\* a deliberately wrong variant of insertByStart: the chunks stay in the order
\* they came in
appendOnly(sorted, c) == Append(sorted, c)

RECURSIVE insertByStart(_, _)
insertByStart(sorted, c) ==
    IF sorted = <<>> THEN <<c>>
    ELSE IF sorted[Len(sorted)].startOffset <= c.startOffset
         THEN Append(sorted, c)
         ELSE Append(insertByStart(SubSeq(sorted, 1, Len(sorted) - 1), c),
                     sorted[Len(sorted)])

RECURSIVE sortByStart(_)
sortByStart(res) ==
    IF res = <<>> THEN <<>>
    ELSE insertByStart(sortByStart(SubSeq(res, 1, Len(res) - 1)),
                       res[Len(res)])

\* the loop of computeHighlightedSegments from chunk i on, and the remainder
\* after the last chunk
RECURSIVE segmentsFrom(_, _, _, _)
segmentsFrom(text, sorted, i, cursor) ==
    IF i > Len(sorted)
    THEN IF cursor < Len(text)
         THEN <<[text |-> slice(text, cursor, Len(text)), isHighlight |-> FALSE]>>
         ELSE <<>>
    ELSE LET c == sorted[i]
             before == IF c.startOffset > cursor
                       THEN <<[text |-> slice(text, cursor, c.startOffset),
                               isHighlight |-> FALSE]>>
                       ELSE <<>>
         IN before
              \o <<[text |-> c.text, isHighlight |-> TRUE, score |-> c.score]>>
              \o segmentsFrom(text, sorted, i + 1, c.endOffset)

computeHighlightedSegments(text, res) ==
    IF Len(res) = 0 \/ Len(text) = 0
    THEN <<[text |-> text, isHighlight |-> FALSE]>>
    ELSE segmentsFrom(text, sortByStart(res), 1, 0)

\* scores are counted in sixtieths, so that 0.7, 0.5, 0.3, 0.25, 0.15 and
\* their halves and thirds are whole numbers
Unit == 60

\* ------------------------------------------------------ tokens and vectors
\* the upper-case letters in use and their lower-case forms
LowerOf == [c \in {"C", "D"} |-> IF c = "C" THEN "c" ELSE "d"]

\* String.prototype.toLowerCase
toLowerCase(s) ==
    [i \in DOMAIN s |-> IF s[i] \in DOMAIN LowerOf THEN LowerOf[s[i]] ELSE s[i]]

\* \w of the characters in use: the letters
IsWordChar(c) == c \notin {" ", "\n", ".", "!", "?", "-"}

\* s.includes(sub)
includes(s, sub) == indexOf(s, sub, 0) # -1

\* s.startsWith(prefix)
startsWith(s, prefix) ==
    Len(prefix) <= Len(s) /\ SubSeq(s, 1, Len(prefix)) = prefix

\* parts.join(" ")
RECURSIVE join(_)
join(parts) ==
    IF parts = <<>> THEN <<>>
    ELSE IF Len(parts) = 1 THEN parts[1]
    ELSE parts[1] \o <<" ">> \o join(Tail(parts))

\* s.split(/\s+/) resumed at offset `from`
RECURSIVE splitSpaces(_, _)
splitSpaces(s, from) ==
    LET seps == {i \in (from + 1)..Len(s) : IsSpace(s[i])}
    IN IF seps = {} THEN <<slice(s, from, Len(s))>>
       ELSE LET first == Least(seps)
                after == {i \in first..Len(s) : ~IsSpace(s[i])}
                end == IF after = {} THEN Len(s) ELSE Least(after) - 1
            IN <<slice(s, from, first - 1)>> \o splitSpaces(s, end)

tokenize(text) ==
    LET lower == toLowerCase(text)
        replaced == [i \in DOMAIN lower |->
                        IF IsWordChar(lower[i]) \/ IsSpace(lower[i])
                        THEN lower[i] ELSE " "]
    IN SelectSeq(splitSpaces(replaced, 0), LAMBDA w : Len(w) > 0)

\* the elements of a sequence, as a set
Range(seq) == {seq[i] : i \in DOMAIN seq}

RECURSIVE dot(_, _)
dot(a, b) == IF a = <<>> THEN 0 ELSE Head(a) * Head(b) + dot(Tail(a), Tail(b))

\* Math.sqrt of a perfect square
sqrt(n) == CHOOSE r \in 0..n : r * r = n

\* cosineSimilarity, in sixtieths
cosineSimilarity(a, b) ==
    IF Len(a) = 0 \/ Len(b) = 0 \/ Len(a) # Len(b) THEN 0
    ELSE LET denominator == sqrt(dot(a, a)) * sqrt(dot(b, b))
         IN IF denominator = 0 THEN 0
            ELSE (dot(a, b) * Unit) \div denominator

\* The same function as the exact number it returns, for vectors whose norms
\* are no whole numbers.  A vector argument is [defined, v]: defined is FALSE
\* for a missing (undefined) argument.  The number returned is `num` over the
\* square root of `squared`; Math.sqrt(normA) * Math.sqrt(normB) is the square
\* root of normA * normB.
NaN == [kind |-> "NaN"]
Infinity == [kind |-> "Infinity"]

\* num / Math.sqrt(squared), as JavaScript divides: 0 / 0 is NaN and any other
\* number over 0 an infinity
Quotient(num, squared) ==
    IF squared # 0 THEN [kind |-> "number", num |-> num, squared |-> squared]
    ELSE IF num = 0 THEN NaN
    ELSE Infinity

\* deliberately wrong variants of the two functions below
neverZero(normA, normB) == FALSE
RECURSIVE sumOfComponents(_)
sumOfComponents(v) == IF v = <<>> THEN 0 ELSE Head(v) + sumOfComponents(Tail(v))

\* !a?.length
noLength(a) == ~a.defined \/ Len(a.v) = 0

\* normA += ai * ai, over the loop
norm(v) == dot(v, v)

\* denominator === 0, the denominator being Math.sqrt(normA) * Math.sqrt(normB)
denominatorIsZero(normA, normB) == normA * normB = 0

cosineSimilarityExact(a, b) ==
    IF noLength(a) \/ noLength(b) \/ Len(a.v) # Len(b.v) THEN Quotient(0, 1)
    ELSE LET dotProduct == dot(a.v, b.v)
             normA == norm(a.v)
             normB == norm(b.v)
         IN IF denominatorIsZero(normA, normB) THEN Quotient(0, 1)
            ELSE Quotient(dotProduct, normA * normB)

\* ------------------------------------------------------ the client rankings
\* An item is [label, description, keywords]; an absent description is the
\* empty string and absent keywords the empty list, as `?? ""` and `?? []`
\* make them.  What embedMany did is [kind |-> "resolve", embeddings |-> e]
\* or [kind |-> "reject", err |-> name].

\* [item.label, item.description ?? "", ...(item.keywords ?? [])]
itemParts(item) == <<item.label, item.description>> \o item.keywords

\* the combined text of the embedding path: empty parts are dropped
itemText(item) == join(SelectSeq(itemParts(item), LAMBDA part : Len(part) > 0))

\* the combined text of the lexical fallback: all parts, lower-cased
searchText(item) == toLowerCase(join(itemParts(item)))

\* a deliberately wrong variant of insertByScore: a candidate goes in front of
\* the candidates that score the same
RECURSIVE insertBeforeTies(_, _)
insertBeforeTies(sorted, c) ==
    IF sorted = <<>> THEN <<c>>
    ELSE IF sorted[Len(sorted)].score > c.score
         THEN Append(sorted, c)
         ELSE Append(insertBeforeTies(SubSeq(sorted, 1, Len(sorted) - 1), c),
                     sorted[Len(sorted)])

\* scored.sort((a, b) => b.score - a.score): stable, highest score first
RECURSIVE insertByScore(_, _)
insertByScore(sorted, c) ==
    IF sorted = <<>> THEN <<c>>
    ELSE IF sorted[Len(sorted)].score >= c.score
         THEN Append(sorted, c)
         ELSE Append(insertByScore(SubSeq(sorted, 1, Len(sorted) - 1), c),
                     sorted[Len(sorted)])

RECURSIVE sortByScore(_)
sortByScore(scored) ==
    IF scored = <<>> THEN <<>>
    ELSE insertByScore(sortByScore(SubSeq(scored, 1, Len(scored) - 1)),
                       scored[Len(scored)])

\* a deliberately wrong variant of keywordBoost: the boosts add up
stackedBoost(q, item) ==
    LET queryLower == toLowerCase(q)
        queryTokens == tokenize(q)
        text == toLowerCase(itemText(item))
    IN (IF includes(toLowerCase(item.label), queryLower) THEN 18 ELSE 0)
       + (IF \E i \in DOMAIN item.keywords :
                includes(toLowerCase(item.keywords[i]), queryLower) THEN 15 ELSE 0)
       + (IF \E i \in DOMAIN queryTokens : includes(text, queryTokens[i])
          THEN 9 ELSE 0)

keywordBoost(q, item) ==
    LET queryLower == toLowerCase(q)
        queryTokens == tokenize(q)
        text == toLowerCase(itemText(item))
    IN IF includes(toLowerCase(item.label), queryLower) THEN 18
       ELSE IF \E i \in DOMAIN item.keywords :
                  includes(toLowerCase(item.keywords[i]), queryLower) THEN 15
       ELSE IF \E i \in DOMAIN queryTokens : includes(text, queryTokens[i]) THEN 9
       ELSE 0

\* the try block of searchItems after embedMany has settled
embeddingRank(q, items, response) ==
    IF response.kind = "reject" THEN Reject(response.err)
    ELSE LET embeddings == response.embeddings
         IN IF Len(embeddings) # Len(items) + 1
            THEN Reject("Invalid embeddings")
            ELSE IF Len(embeddings[1]) = 0
            THEN Reject("Empty query embedding")
            ELSE Resolve(sortByScore(
                   [i \in DOMAIN items |->
                      [item |-> items[i],
                       score |-> Min(cosineSimilarity(embeddings[1], embeddings[i + 1])
                                       + keywordBoost(q, items[i]), Unit)]]))

\* a deliberately wrong variant of wordScore: no partial credit
exactOrSubstring(qWord, text, itemWords) ==
    IF qWord \in itemWords THEN Unit
    ELSE IF includes(text, qWord) THEN 42
    ELSE 0

\* a deliberately wrong variant of wordScore: the prefix rule is tried before
\* the substring rule
prefixFirst(qWord, text, itemWords) ==
    IF qWord \in itemWords THEN Unit
    ELSE IF \E itemWord \in itemWords :
               startsWith(itemWord, qWord) \/ startsWith(qWord, itemWord) THEN 30
    ELSE IF includes(text, qWord) THEN 42
    ELSE 0

\* what one query word adds to matchScore
wordScore(qWord, text, itemWords) ==
    IF qWord \in itemWords THEN Unit
    ELSE IF includes(text, qWord) THEN 42
    ELSE IF \E itemWord \in itemWords :
               startsWith(itemWord, qWord) \/ startsWith(qWord, itemWord) THEN 30
    ELSE 0

\* for (const qWord of queryWords) matchScore += ...
RECURSIVE matchScore(_, _, _)
matchScore(queryWords, text, itemWords) ==
    IF queryWords = {} THEN 0
    ELSE LET qWord == CHOOSE w \in queryWords : TRUE
         IN wordScore(qWord, text, itemWords)
              + matchScore(queryWords \ {qWord}, text, itemWords)

\* the lexical fallback of searchItems
lexicalRank(q, items) ==
    LET queryWords == Range(tokenize(q))
        scoreOf(item) ==
            LET text == searchText(item)
                itemWords == Range(tokenize(text))
            IN Min(matchScore(queryWords, text, itemWords)
                     \div Cardinality(queryWords), Unit)
    IN IF Cardinality(queryWords) = 0
       THEN [i \in DOMAIN items |-> [item |-> items[i], score |-> 0]]
       ELSE sortByScore([i \in DOMAIN items |->
                           [item |-> items[i], score |-> scoreOf(items[i])]])

\* deliberately wrong variants of the functions below
rethrowAny(err) == TRUE
noSlice(scored, maxResults) == scored

\* err instanceof DOMException && err.name === "AbortError", in searchItems
rethrown(err) == err = "AbortError"

searchItems(q, items, aborted, ep, init, response) ==
    IF Len(items) = 0 THEN Resolve(<<>>)
    ELSE IF aborted THEN Reject("AbortError")
    ELSE LET ranked == embeddingRank(q, items, response)
         IN IF ep /\ init /\ (ranked.ok \/ rethrown(ranked.err))
            THEN ranked
            ELSE Resolve(lexicalRank(q, items))

\* scored.slice(0, maxResults)
sliceTo(scored, maxResults) ==
    IF maxResults >= 0 THEN SubSeq(scored, 1, Min(maxResults, Len(scored)))
    ELSE SubSeq(scored, 1, Len(scored) + maxResults)

searchInText(q, text, opts, aborted, ep, init, response) ==
    LET rawChunks == chunk(opts.chunkStrategy, text)
    IN IF aborted THEN Reject("AbortError")
       ELSE IF Len(rawChunks) = 0 THEN Resolve(<<>>)
       ELSE IF ~ep \/ ~init
       THEN Reject("Embedding provider not initialized for text search")
       ELSE IF response.kind = "reject" THEN Reject(response.err)
       ELSE LET embeddings == response.embeddings
            IN IF Len(embeddings) # Len(rawChunks) + 1
               THEN Reject("Invalid embeddings response")
               ELSE IF Len(embeddings[1]) = 0
               THEN Reject("Empty query embedding")
               ELSE LET scored ==
                          [i \in DOMAIN rawChunks |->
                             [text |-> rawChunks[i].text,
                              startOffset |-> rawChunks[i].startOffset,
                              endOffset |-> rawChunks[i].endOffset,
                              score |-> cosineSimilarity(embeddings[1],
                                                         embeddings[i + 1])]]
                    IN Resolve(sliceTo(
                         sortByScore(SelectSeq(scored,
                                               LAMBDA c : c.score >= opts.minScore)),
                         opts.maxResults))

\* ------------------------------------------- the functions taken on their own
\* the longest text drawn, in characters
MaxTextLen == 4

Alphabet == {"a", " ", ".", "\n"}
HelloWorld ==
    <<"H", "e", "l", "l", "o", " ", "w", "o", "r", "l", "d", ".", " ",
      "H", "o", "w", " ", "a", "r", "e", " ", "y", "o", "u", "?">>
TextInputs ==
    UNION {[1..n -> Alphabet] : n \in 0..MaxTextLen} \cup {HelloWorld}
ChunkStrategies == {"sentences", "paragraphs"}

RECURSIVE reverse(_)
reverse(s) == IF s = <<>> THEN <<>> ELSE Append(reverse(Tail(s)), Head(s))

\* the chunks of a text picked as results, in text order or in reverse, each
\* given a score
Picked(chunks, picked, reversed) ==
    LET keep == SelectSeq([i \in DOMAIN chunks |->
                              [text |-> chunks[i].text,
                               startOffset |-> chunks[i].startOffset,
                               endOffset |-> chunks[i].endOffset,
                               score |-> IF i \in picked THEN Unit ELSE -1]],
                          LAMBDA c : c.score >= 0)
    IN IF reversed THEN reverse(keep) ELSE keep

ChunkCalls ==
    {[fn |-> "chunk", chunkStrategy |-> st, text |-> t] :
        st \in ChunkStrategies, t \in TextInputs}

HighlightCalls ==
    UNION {{[fn |-> "computeHighlightedSegments", chunkStrategy |-> c.chunkStrategy,
             text |-> c.text,
             results |-> Picked(chunk(c.chunkStrategy, c.text), picked, reversed)] :
               picked \in SUBSET DOMAIN chunk(c.chunkStrategy, c.text),
               reversed \in BOOLEAN} : c \in ChunkCalls}

\* the same calls with the results as searchInText returns them: sorted by
\* score, the best first, so that each chunk carries a score of its own
RankedCalls ==
    {[c EXCEPT !.results = [i \in DOMAIN c.results |->
                               [c.results[i] EXCEPT !.score = Unit \div i]]] :
        c \in HighlightCalls}

\* the largest maxResults drawn
MaxResults == 2

Cat == [label |-> <<"C", "a", "t">>, description |-> <<>>, keywords |-> <<>>]
Dog == [label |-> <<"D", "o", "g">>, description |-> <<>>, keywords |-> <<>>]
Tagged == [label |-> <<"a">>, description |-> <<>>,
           keywords |-> <<<<"c", "a", "t">>>>]
ItemInputs == {<<>>, <<Cat, Dog>>, <<Dog, Cat>>, <<Dog, Tagged>>}
\* "", "-", "cat", "Cat", "ca", "cats", "cat dog", "ca dogs"
QueryInputs ==
    {<<>>, <<"-">>, <<"c", "a", "t">>, <<"C", "a", "t">>, <<"c", "a">>,
     <<"c", "a", "t", "s">>, <<"c", "a", "t", " ", "d", "o", "g">>,
     <<"c", "a", " ", "d", "o", "g", "s">>}
\* "", " ", "a.", "a. a"
SearchTexts == {<<>>, <<" ">>, <<"a", ".">>, <<"a", ".", " ", "a">>}
\* -1, 0, 0.3 (the default) and more than 1
MinScores == {-Unit, 0, 18, Unit + 1}
OptionInputs ==
    [chunkStrategy : ChunkStrategies, maxResults : 0..MaxResults,
     minScore : MinScores]

\* embedMany was not called
NoResponse == [kind |-> "none"]
QueryVectors == {<<>>, <<1, 0>>}
CandidateVectors == {<<1, 0>>, <<-1, 0>>, <<3, 4>>, <<0, 0>>, <<1>>}
\* what embedMany may do when asked for the vectors of a query and n
\* candidates: resolve with n + 1 vectors, resolve with another number of
\* vectors, reject with AbortError, reject with another error
EmbedResponses(n) ==
    {[kind |-> "resolve", embeddings |-> <<qv>> \o cv] :
        qv \in QueryVectors, cv \in [1..n -> CandidateVectors]}
    \cup {[kind |-> "resolve", embeddings |-> e] :
             e \in {<<>>, [i \in 1..n |-> <<1, 0>>], [i \in 1..(n + 2) |-> <<1, 0>>]}}
    \cup {[kind |-> "reject", err |-> e] : e \in {"AbortError", "BackendFailure"}}

SearchItemsCalls ==
    UNION {{[fn |-> "searchItems", q |-> q, items |-> items, aborted |-> aborted,
             ep |-> ep, init |-> init, response |-> response] :
               response \in IF Len(items) > 0 /\ ~aborted /\ ep /\ init
                            THEN EmbedResponses(Len(items))
                            ELSE {NoResponse}} :
             q \in QueryInputs, items \in ItemInputs, aborted \in BOOLEAN,
             ep \in BOOLEAN, init \in BOOLEAN}

SearchInTextCalls ==
    UNION {{[fn |-> "searchInText", q |-> <<"a">>, text |-> text, opts |-> opts,
             aborted |-> aborted, ep |-> ep, init |-> init,
             response |-> response] :
               response \in IF ~aborted /\ ep /\ init
                               /\ Len(chunk(opts.chunkStrategy, text)) > 0
                            THEN EmbedResponses(Len(chunk(opts.chunkStrategy, text)))
                            ELSE {NoResponse}} :
             text \in SearchTexts, opts \in OptionInputs, aborted \in BOOLEAN,
             ep \in BOOLEAN, init \in BOOLEAN}

\* calls that rank three candidates, so that a ranking can move one candidate
\* past two that tie: three items, and the three sentences of "a.a.a"
ThreeItems == <<Dog, Cat, Tagged>>
ThreeSentences == <<"a", ".", "a", ".", "a">>
TieVectors == {<<1, 0>>, <<3, 4>>}
TieResponses ==
    {[kind |-> "resolve", embeddings |-> <<<<1, 0>>>> \o cv] :
        cv \in [1..3 -> TieVectors]}
TieCalls ==
    {[fn |-> "searchItems", q |-> q, items |-> ThreeItems, aborted |-> FALSE,
      ep |-> TRUE, init |-> TRUE, response |-> response] :
        q \in {<<>>, <<"c", "a", "t">>}, response \in TieResponses}
    \cup {[fn |-> "searchItems", q |-> q, items |-> ThreeItems, aborted |-> FALSE,
           ep |-> FALSE, init |-> TRUE, response |-> NoResponse] :
             q \in QueryInputs}
    \cup {[fn |-> "searchInText", q |-> <<"a">>, text |-> ThreeSentences,
           opts |-> [chunkStrategy |-> "sentences", maxResults |-> MaxResults,
                     minScore |-> 0],
           aborted |-> FALSE, ep |-> TRUE, init |-> TRUE, response |-> response] :
             response \in TieResponses}

\* lexical calls over an item whose label the tokenizer cuts in two, "c-at":
\* "c", "ca", "cat", "at", "c-a", "cats"
Dashed == [label |-> <<"c", "-", "a", "t">>, description |-> <<>>,
           keywords |-> <<>>]
PrefixQueries ==
    {<<"c">>, <<"c", "a">>, <<"c", "a", "t">>, <<"a", "t">>,
     <<"c", "-", "a">>, <<"c", "a", "t", "s">>}
PrefixCalls ==
    {[fn |-> "searchItems", q |-> q, items |-> <<Dashed, Cat>>,
      aborted |-> FALSE, ep |-> FALSE, init |-> TRUE, response |-> NoResponse] :
        q \in PrefixQueries}

\* the most components a vector drawn has, and the largest a component is
MaxDim == 2
MaxComponent == 1

\* a missing vector, and the vectors of whole numbers within the bounds
VectorInputs ==
    {[defined |-> FALSE, v |-> <<>>]}
    \cup {[defined |-> TRUE, v |-> v] :
             v \in UNION {[1..n -> (-MaxComponent)..MaxComponent] : n \in 0..MaxDim}}

CosineCalls ==
    {[fn |-> "cosineSimilarity", a |-> a, b |-> b] :
        a \in VectorInputs, b \in VectorInputs}

Calls ==
    ChunkCalls \cup HighlightCalls \cup RankedCalls \cup SearchItemsCalls
        \cup SearchInTextCalls \cup TieCalls \cup PrefixCalls \cup CosineCalls

Returned(v) == [done |-> TRUE, val |-> v]

controllerVars ==
    <<hook, client, embeddingProvider, initialized, source, query, results,
      isSearching, error, debounceTimerRef, timers, lastQueryRef, lastTextRef,
      abortControllerRef, reqs, mounted, lastOp, burst, dropdownVars,
      tooltipVars, lifecycleVars>>

\* one call is drawn; no controller is mounted
FunctionInit ==
    /\ invoked \in Calls
    /\ returned = Pending
    /\ hook = "useSearch"
    /\ client = FALSE
    /\ embeddingProvider = FALSE
    /\ initialized = FALSE
    /\ source = <<>>
    /\ query = ""
    /\ results = NoResults
    /\ isSearching = FALSE
    /\ error = NoError
    /\ debounceTimerRef = 0
    /\ timers = {}
    /\ lastQueryRef = ""
    /\ lastTextRef = ""
    /\ abortControllerRef = 0
    /\ reqs = <<>>
    /\ mounted = FALSE
    /\ lastOp = NoOp
    /\ burst = NoBurst
    /\ NoDropdown
    /\ NoTooltip
    /\ provider = FALSE
    /\ initializing = <<>>

Chunk ==
    /\ invoked.fn = "chunk"
    /\ ~returned.done
    /\ returned' = Returned(chunk(invoked.chunkStrategy, invoked.text))
    /\ UNCHANGED <<invoked, controllerVars>>

Highlight ==
    /\ invoked.fn = "computeHighlightedSegments"
    /\ ~returned.done
    /\ returned' = Returned(computeHighlightedSegments(invoked.text, invoked.results))
    /\ UNCHANGED <<invoked, controllerVars>>

SearchItems ==
    /\ invoked.fn = "searchItems"
    /\ ~returned.done
    /\ returned' = Returned(searchItems(invoked.q, invoked.items, invoked.aborted,
                                        invoked.ep, invoked.init, invoked.response))
    /\ UNCHANGED <<invoked, controllerVars>>

SearchInText ==
    /\ invoked.fn = "searchInText"
    /\ ~returned.done
    /\ returned' = Returned(searchInText(invoked.q, invoked.text, invoked.opts,
                                         invoked.aborted, invoked.ep, invoked.init,
                                         invoked.response))
    /\ UNCHANGED <<invoked, controllerVars>>

CosineSimilarity ==
    /\ invoked.fn = "cosineSimilarity"
    /\ ~returned.done
    /\ returned' = Returned(cosineSimilarityExact(invoked.a, invoked.b))
    /\ UNCHANGED <<invoked, controllerVars>>

FunctionNext ==
    \/ Chunk
    \/ Highlight
    \/ SearchItems
    \/ SearchInText
    \/ CosineSimilarity

FunctionSpec == FunctionInit /\ [][FunctionNext]_vars

\* ------------------------------------------------- claims on the functions
RECURSIVE concatTexts(_)
concatTexts(segments) ==
    IF segments = <<>> THEN <<>>
    ELSE Head(segments).text \o concatTexts(Tail(segments))

ChunkReturned == invoked.fn = "chunk" /\ returned.done

\* C16 (as claimed): for any text and any chunks the chunker produced from
\* that text, the texts of the segments computeHighlightedSegments emits,
\* concatenated in order, are the original text.
C16_HighlightRoundTrip ==
    (invoked.fn = "computeHighlightedSegments" /\ returned.done)
        => concatTexts(returned.val) = invoked.text

\* C17 (as claimed): chunkBySentences("Hello world. How are you?") yields
\* exactly {"Hello world.", 0, 12} and {"How are you?", 13, 25}.
C17_HelloWorldOffsets ==
    (/\ ChunkReturned
     /\ invoked.chunkStrategy = "sentences"
     /\ invoked.text = HelloWorld)
        => returned.val =
              <<[text |-> SubSeq(HelloWorld, 1, 12),
                 startOffset |-> 0, endOffset |-> 12],
                [text |-> SubSeq(HelloWorld, 14, 25),
                 startOffset |-> 13, endOffset |-> 25]>>

\* C18: under both strategies every chunk has 0 <= startOffset < endOffset <=
\* length(text), its text is the slice between its offsets with surrounding
\* whitespace trimmed, and the chunks come in strictly increasing offset order
\* without overlap.
C18_ChunkOffsets ==
    ChunkReturned =>
        LET chunks == returned.val
            text == invoked.text
        IN /\ \A i \in DOMAIN chunks :
                 /\ 0 <= chunks[i].startOffset
                 /\ chunks[i].startOffset < chunks[i].endOffset
                 /\ chunks[i].endOffset <= Len(text)
                 /\ chunks[i].text =
                       trim(SubSeq(text, chunks[i].startOffset + 1,
                                   chunks[i].endOffset))
           /\ \A i \in 1..(Len(chunks) - 1) :
                 /\ chunks[i].startOffset < chunks[i + 1].startOffset
                 /\ chunks[i].endOffset <= chunks[i + 1].startOffset

\* the same paragraph text occurs twice and both occurrences became chunks
C18_Witness ==
    /\ ChunkReturned
    /\ invoked.chunkStrategy = "paragraphs"
    /\ Len(returned.val) = 2
    /\ returned.val[1].text = returned.val[2].text
    /\ returned.val[2].startOffset > 0

\* C19: under the sentence strategy every non-whitespace character lies in
\* the range of exactly one chunk; non-whitespace text after the last
\* terminator is in a final chunk that ends at length(text); a text without
\* non-whitespace characters yields no chunk.
C19_SentenceCoverage ==
    (ChunkReturned /\ invoked.chunkStrategy = "sentences") =>
        LET chunks == returned.val
            text == invoked.text
            inside(p) == {i \in DOMAIN chunks :
                            chunks[i].startOffset < p /\ p <= chunks[i].endOffset}
            solid == {p \in DOMAIN text : text[p] \notin {" ", "\n"}}
        IN /\ \A p \in solid : Cardinality(inside(p)) = 1
           /\ (Len(text) \in solid /\ text[Len(text)] \notin {".", "!", "?"})
                 => chunks[Len(chunks)].endOffset = Len(text)
           /\ solid = {} => chunks = <<>>

\* a sentence is followed by trailing text without a terminator
C19_Witness ==
    /\ ChunkReturned /\ invoked.chunkStrategy = "sentences"
    /\ Len(returned.val) = 2
    /\ invoked.text[Len(invoked.text)] = "a"
    /\ returned.val[2].endOffset = Len(invoked.text)

\* ------------------------------------------------- claims on the rankings
ItemsReturned == invoked.fn = "searchItems" /\ returned.done
TextReturned == invoked.fn = "searchInText" /\ returned.done
\* how many candidates the call ranks
Candidates ==
    IF invoked.fn = "searchItems" THEN Len(invoked.items)
    ELSE Len(chunk(invoked.opts.chunkStrategy, invoked.text))
\* embedMany resolved with the wrong number of vectors or an empty query vector
InvalidResponse ==
    /\ invoked.response.kind = "resolve"
    /\ \/ Len(invoked.response.embeddings) # Candidates + 1
       \/ Len(invoked.response.embeddings[1]) = 0

\* C11 (as claimed): searchInText called while the embedding provider is
\* missing or not initialized fails with the provider-not-initialized error
\* for every text, an empty or whitespace-only one included.
C11_TextSearchNeedsProvider ==
    (TextReturned /\ ~invoked.aborted /\ ~(invoked.ep /\ invoked.init))
        => /\ ~returned.val.ok
           /\ returned.val.err = "Embedding provider not initialized for text search"

\* C12 (as claimed): searchItems and searchInText fail with an
\* invalid-embeddings error, and return no ranking, whenever embedMany returns
\* a number of vectors other than candidates + 1 or an empty query vector.
C12_InvalidResponseFails ==
    ((ItemsReturned \/ TextReturned) /\ InvalidResponse)
        => /\ ~returned.val.ok
           /\ returned.val.err \in {"Invalid embeddings", "Invalid embeddings response",
                                    "Empty query embedding"}

\* C13: searchItems fails with nothing but a cancellation.  Without an
\* initialized embedding provider, and after an embedding-path failure that is
\* no cancellation, it returns the lexical ranking of the same query and
\* items, which holds every item exactly once.
C13_ItemsFallBack ==
    ItemsReturned =>
        /\ ~returned.val.ok => returned.val.err = "AbortError"
        /\ (/\ Len(invoked.items) > 0 /\ ~invoked.aborted
            /\ \/ ~(invoked.ep /\ invoked.init)
               \/ (invoked.response.kind = "reject"
                     /\ invoked.response.err # "AbortError")
               \/ InvalidResponse)
             => /\ returned.val.ok
                /\ returned.val.val = lexicalRank(invoked.q, invoked.items)
                /\ Len(returned.val.val) = Len(invoked.items)
                /\ \A i \in DOMAIN invoked.items :
                      Cardinality({k \in DOMAIN returned.val.val :
                          returned.val.val[k].item = invoked.items[i]}) = 1

\* the embedding call failed and the lexical ranking put the second item first
C13_Witness ==
    /\ ItemsReturned
    /\ invoked.ep /\ invoked.init
    /\ invoked.response.kind = "reject" /\ invoked.response.err = "BackendFailure"
    /\ returned.val.ok
    /\ Len(returned.val.val) = 2
    /\ returned.val.val[1].item = invoked.items[2]
    /\ returned.val.val[1].score = Unit

\* C14 (as claimed): a ranking returned by searchItems or searchInText is in
\* non-increasing score order and every score lies in [0,1].
C14_SortedUnitScores ==
    ((ItemsReturned \/ TextReturned) /\ returned.val.ok) =>
        LET ranked == returned.val.val
        IN /\ \A i \in 1..(Len(ranked) - 1) : ranked[i].score >= ranked[i + 1].score
           /\ \A i \in DOMAIN ranked : 0 <= ranked[i].score /\ ranked[i].score <= Unit

\* C15: searchInText returns no chunk scored below minScore and at most
\* maxResults chunks, and these are the highest-scoring of the chunks scored
\* minScore or more.
C15_ThresholdAndCap ==
    (TextReturned /\ returned.val.ok /\ invoked.response.kind = "resolve") =>
        LET ranked == returned.val.val
            chunks == chunk(invoked.opts.chunkStrategy, invoked.text)
            score(i) == cosineSimilarity(invoked.response.embeddings[1],
                                         invoked.response.embeddings[i + 1])
            passing == {i \in DOMAIN chunks : score(i) >= invoked.opts.minScore}
            kept == {i \in passing : \E k \in DOMAIN ranked :
                        /\ ranked[k].startOffset = chunks[i].startOffset
                        /\ ranked[k].text = chunks[i].text
                        /\ ranked[k].score = score(i)}
        IN /\ \A k \in DOMAIN ranked : ranked[k].score >= invoked.opts.minScore
           /\ Len(ranked) <= invoked.opts.maxResults
           /\ Len(ranked) = Min(invoked.opts.maxResults, Cardinality(passing))
           /\ Cardinality(kept) = Len(ranked)
           /\ \A i \in passing \ kept : \A j \in kept : score(i) <= score(j)

\* two chunks pass the threshold, the cap is one, and the later chunk of the
\* text is the one returned
C15_Witness ==
    /\ TextReturned /\ returned.val.ok
    /\ invoked.opts.maxResults = 1 /\ invoked.opts.minScore = 18
    /\ invoked.response.kind = "resolve"
    /\ invoked.response.embeddings = <<<<1, 0>>, <<3, 4>>, <<1, 0>>>>
    /\ Len(returned.val.val) = 1
    /\ returned.val.val[1].startOffset > 0
    /\ returned.val.val[1].score = Unit

\* the call ranks lexically: no embedding provider, not cancelled, some items
LexicalCall ==
    /\ ItemsReturned
    /\ ~(invoked.ep /\ invoked.init) /\ ~invoked.aborted
    /\ Len(invoked.items) > 0

\* C20: in the lexical fallback an item's score is the sum over the unique
\* query tokens of 1.0 for a token of the item, else 0.7 for a substring of
\* the item's combined text, else 0.5 for a token in a prefix relation with a
\* token of the item, divided by the number of query tokens and clamped to
\* [0,1]; a query without tokens scores every item 0 and keeps the input
\* order; "cat" against [Cat, Dog] gives Cat 1.0, Dog 0.0, in that order.
C20_LexicalScore ==
    LexicalCall =>
        LET ranked == returned.val.val
            tokens == {tokenize(invoked.q)[i] : i \in DOMAIN tokenize(invoked.q)}
            combined(item) ==
                toLowerCase(join(<<item.label, item.description>> \o item.keywords))
            words(item) ==
                {tokenize(combined(item))[i] : i \in DOMAIN tokenize(combined(item))}
            exact(item) == tokens \cap words(item)
            within(item) ==
                {t \in tokens \ exact(item) : includes(combined(item), t)}
            partial(item) ==
                {t \in tokens \ (exact(item) \cup within(item)) :
                    \E w \in words(item) : startsWith(w, t) \/ startsWith(t, w)}
            total(item) == 60 * Cardinality(exact(item))
                             + 42 * Cardinality(within(item))
                             + 30 * Cardinality(partial(item))
            expected(item) ==
                IF total(item) >= 60 * Cardinality(tokens) THEN 60
                ELSE total(item) \div Cardinality(tokens)
        IN /\ returned.val.ok
           /\ tokens = {} =>
                 ranked = [i \in DOMAIN invoked.items |->
                              [item |-> invoked.items[i], score |-> 0]]
           /\ tokens # {} =>
                 \A k \in DOMAIN ranked : ranked[k].score = expected(ranked[k].item)
           /\ (invoked.q = <<"c", "a", "t">> /\ invoked.items = <<Cat, Dog>>)
                 => ranked = <<[item |-> Cat, score |-> 60],
                               [item |-> Dog, score |-> 0]>>

\* "ca dogs" against [Dog, Cat]: Cat gets substring credit for one of two
\* tokens, Dog partial credit for the other
C20_Witness ==
    /\ LexicalCall
    /\ invoked.q = <<"c", "a", " ", "d", "o", "g", "s">>
    /\ invoked.items = <<Dog, Cat>>
    /\ returned.val.val = <<[item |-> Cat, score |-> 21], [item |-> Dog, score |-> 15]>>

\* the call ranks by embeddings: a provider, no cancellation, some items, and
\* embedMany resolved with a well-formed response
EmbeddingCall ==
    /\ ItemsReturned
    /\ invoked.ep /\ invoked.init /\ ~invoked.aborted
    /\ Len(invoked.items) > 0
    /\ invoked.response.kind = "resolve"
    /\ ~InvalidResponse

\* C21: in the embedding path every item gets exactly one boost, chosen by
\* strict priority: 0.3 when its label contains the query, else 0.25 when one
\* of its keywords does, else 0.15 when a token of the query is a substring of
\* its lower-cased combined text, else none (all case-insensitively); boosts
\* never add up, and the score is min(embeddingScore + boost, 1).
C21_KeywordBoost ==
    EmbeddingCall =>
        LET ranked == returned.val.val
            vectors == invoked.response.embeddings
            queryLower == toLowerCase(invoked.q)
            tokens == tokenize(invoked.q)
            inLabel(item) == includes(toLowerCase(item.label), queryLower)
            inKeyword(item) ==
                \E k \in DOMAIN item.keywords :
                    includes(toLowerCase(item.keywords[k]), queryLower)
            inText(item) ==
                \E t \in DOMAIN tokens :
                    includes(toLowerCase(itemText(item)), tokens[t])
            boost(item) ==
                IF inLabel(item) THEN 18
                ELSE IF inKeyword(item) THEN 15
                ELSE IF inText(item) THEN 9
                ELSE 0
            expected(i) ==
                Min(cosineSimilarity(vectors[1], vectors[i + 1])
                      + boost(invoked.items[i]), 60)
        IN /\ returned.val.ok
           /\ Len(ranked) = Len(invoked.items)
           /\ \A i \in DOMAIN invoked.items :
                 \E k \in DOMAIN ranked :
                     /\ ranked[k].item = invoked.items[i]
                     /\ ranked[k].score = expected(i)

\* "ca" against [Dog, Tagged]: a keyword of Tagged contains the query and a
\* token of the query is in its combined text; it gets 0.25 on top of a
\* cosine of 0.6, not 0.4
C21_Witness ==
    /\ EmbeddingCall
    /\ invoked.q = <<"c", "a">>
    /\ invoked.items = <<Dog, Tagged>>
    /\ invoked.response.embeddings = <<<<1, 0>>, <<1, 0>>, <<3, 4>>>>
    /\ returned.val.val = <<[item |-> Dog, score |-> 60],
                            [item |-> Tagged, score |-> 51]>>

\* C22: ranking is stable on ties.  In a ranking returned by searchItems, by
\* embeddings or lexically, two items with the same score stand in the order
\* they have in the input list; in a ranking returned by searchInText two
\* chunks with the same score stand in text order.
C22_StableOnTies ==
    ((ItemsReturned \/ TextReturned) /\ returned.val.ok) =>
        LET ranked == returned.val.val
            place(c) ==
                IF invoked.fn = "searchItems"
                THEN CHOOSE i \in DOMAIN invoked.items : invoked.items[i] = c.item
                ELSE c.startOffset
        IN \A k \in DOMAIN ranked : \A l \in DOMAIN ranked :
               (k < l /\ ranked[k].score = ranked[l].score)
                   => place(ranked[k]) < place(ranked[l])

\* the second of three items scores highest and moves to the front; the first
\* and the third tie and keep their order
C22_Witness ==
    /\ ItemsReturned /\ returned.val.ok
    /\ invoked.items = ThreeItems
    /\ invoked.response.kind = "resolve"
    /\ returned.val.val = <<[item |-> Cat, score |-> 60],
                            [item |-> Dog, score |-> 54],
                            [item |-> Tagged, score |-> 54]>>

\* ---------------------------------------------- claims on cosineSimilarity
CosineReturned == invoked.fn = "cosineSimilarity" /\ returned.done
\* every component of the vector is 0
ZeroNorm(a) == \A i \in DOMAIN a.v : a.v[i] = 0
\* both vectors are there, with the same number of components, at least one
SameShape(a, b) ==
    /\ a.defined /\ b.defined
    /\ Len(a.v) > 0
    /\ Len(a.v) = Len(b.v)

\* C23: cosineSimilarity(a, b) returns the number 0, and neither throws nor
\* returns a non-number, when a vector is missing or empty, when the vectors
\* differ in length, or when a vector has zero norm.
C23_DegenerateIsZero ==
    (/\ CosineReturned
     /\ \/ ~SameShape(invoked.a, invoked.b)
        \/ ZeroNorm(invoked.a)
        \/ ZeroNorm(invoked.b))
        => (returned.val.kind = "number" /\ returned.val.num = 0)

\* a vector of zeros against a vector of the same length that is not zero
C23_Witness ==
    /\ CosineReturned
    /\ invoked.a = [defined |-> TRUE, v |-> <<0, 0>>]
    /\ invoked.b = [defined |-> TRUE, v |-> <<1, 1>>]
    /\ returned.val.kind = "number" /\ returned.val.num = 0

LatestPending == \E i \in DOMAIN reqs : ~reqs[i].superseded

\* a search was issued in the step that led here
Issued == lastOp.op = "search" /\ lastOp.kind = "issue"

\* C25 (as claimed): isSearching is true exactly when the most recently
\* issued request has not settled yet; and, every client call settling in the
\* end, whenever the controller is searching it is not searching at some
\* later time.
C25_SearchingLeadsToIdle ==
    /\ [](isSearching = LatestPending)
    /\ isSearching ~> ~isSearching

\* C25 (amended): isSearching is true exactly when the most recently issued
\* request has not settled yet, however that request ends and whichever
\* superseded requests settle meanwhile; and, every client call settling in
\* the end, whenever the controller is searching, at some later time it is
\* not searching or a newer request has been issued.
C25_LoadingTracksLatest ==
    /\ [](isSearching = LatestPending)
    /\ isSearching ~> (~isSearching \/ Issued)

\* a superseded request has settled while the newer one is pending, and the
\* controller is still searching
C25_Witness ==
    /\ lastOp.op = "settle" /\ lastOp.stale
    /\ isSearching
    /\ Len(reqs) = 1 /\ ~reqs[1].superseded

\* C26: the guards of search come in this order.  Without a client, search
\* returns the empty list and changes none of results, error, isSearching,
\* the last searched query and text and the request in flight, also when the
\* query is shorter than minQueryLength; only with a client does a query
\* that short clear the results and return the empty list.
C26_GuardOrder ==
    [][lastOp'.op = "search" =>
         /\ ~client =>
               /\ lastOp'.kind = "noClient"
               /\ lastOp'.val = NoResults
               /\ lastOp'.cb = "none"
               /\ UNCHANGED <<results, error, isSearching, lastQueryRef,
                              lastTextRef, abortControllerRef, reqs>>
         /\ (client /\ Len(lastOp'.q) < minQueryLength(hook)) =>
               /\ lastOp'.kind = "short"
               /\ results' = NoResults
               /\ lastOp'.val = NoResults
         /\ lastOp'.kind = "short" => client]_vars

\* search was called without a client and with a query that is too short
C26_Witness ==
    /\ ~client
    /\ lastOp.op = "search" /\ lastOp.kind = "noClient"
    /\ Len(lastOp.q) < minQueryLength(hook)

\* C27 (as claimed): once setQuery or search, given a query shorter than
\* minQueryLength, has cleared the results, they stay empty until the next
\* search is issued; a request in flight at that time does not commit its
\* results.  Stated for the step that follows the clearing: it leaves the
\* results empty (a step that issues a search does not set them either).
C27_ClearedStaysEmpty ==
    [][(lastOp.op \in {"setQuery", "search"} /\ lastOp.kind = "short")
          => results' = NoResults]_vars

\* C28 (as claimed): after any sequence of setQuery calls, once no call has
\* arrived for debounceMs (no timer is pending) and every request issued has
\* resolved, a displayed query of at least minQueryLength characters has its
\* results on display: the ranking of that query over the current text or
\* items, which is empty when the text or the item list is.
C28_EventuallyConsistent ==
    (timers = {} /\ reqs = <<>> /\ Len(query) >= minQueryLength(hook)) =>
        IF source = (IF hook = "useSearch" THEN "" ELSE <<>>)
        THEN results = NoResults
        ELSE /\ results # NoResults
             /\ results.q = query
             /\ results.src = source

\* C29 (as claimed): duplicate suppression applies only to a search that
\* completed.  When the latest search has ended with a failure that is no
\* cancellation and search is called next with the same query, the text
\* unchanged, a new request is issued.
C29_FailedSearchIsRetried ==
    [][(/\ lastOp.op = "settle" /\ lastOp.kind = "reject"
        /\ lastOp.err # "AbortError" /\ ~lastOp.stale
        /\ client
        /\ hook = "useSearch" => source = lastTextRef
        /\ source' = source
        /\ lastOp'.op = "search" /\ lastOp'.q = lastOp.q)
          => lastOp'.kind = "issue"]_vars

\* C30 (as claimed): right after clear() the query is empty, the results are
\* empty, the error is null and no debounce timer is pending; and this stays
\* so until the next setQuery or search call, also when a request was in
\* flight when clear() was called.  Stated for clear() and the step that
\* follows it.
C30_ClearedStaysClear ==
    [][/\ lastOp'.op = "clear" =>
             (query' = "" /\ results' = NoResults /\ error' = NoError
                /\ timers' = {})
       /\ (lastOp.op = "clear" /\ lastOp'.op \notin {"setQuery", "search"}) =>
             (query' = "" /\ results' = NoResults /\ error' = NoError
                /\ timers' = {})]_vars

\* a step in which the text / items prop changes while the query is long
\* enough and the client is there
ChangeStep ==
    /\ source' # source
    /\ mounted /\ client
    /\ ~TooShort(hook, query)

\* C31 (as claimed): in useSelect, when the items change while the query is
\* long enough and the client is there, a search of the current query is
\* issued against the new items, also when that query is the one searched last.
C31_ItemsChangeReSearches ==
    [][(hook = "useSelect" /\ ChangeStep)
         => /\ lastOp'.op = "search" /\ lastOp'.kind = "issue"
            /\ lastOp'.q = query
            /\ reqs'[Len(reqs')].src = source']_vars

\* C32 (as claimed): in useSearch, when the text changes while the query is
\* long enough and the client is there, a search for the query and the new text
\* is issued in that same step, with no timer in between, and every request in
\* flight for the old text is cancelled and superseded.
C32_TextChangeReSearches ==
    [][(hook = "useSearch" /\ ChangeStep)
         => /\ lastOp'.op = "search" /\ lastOp'.kind = "issue"
            /\ lastOp'.via = "effect"
            /\ lastOp'.q = query
            /\ reqs'[Len(reqs')].src = source'
            /\ abortControllerRef' = Len(reqs')
            /\ \A i \in DOMAIN reqs :
                  reqs'[i].superseded /\ reqs'[i].aborted]_vars

\* C33 (as claimed): in every reachable state of useSearch the visible results
\* were computed from the current text, so that highlightedText is a
\* projection of chunks of the text on display.
C33_ResultsFromCurrentText ==
    (hook = "useSearch" /\ results # NoResults) => results.src = source

HighlightReturned ==
    invoked.fn = "computeHighlightedSegments" /\ returned.done

\* the segments of out that are highlighted, in order
highlighted(out) == SelectSeq(out, LAMBDA s : s.isHighlight)

\* the orders of n chunks
Orders(n) ==
    {p \in [1..n -> 1..n] : \A i, j \in 1..n : i # j => p[i] # p[j]}

\* C34: shape of the output of computeHighlightedSegments.  With no chunk or
\* an empty text the output is the one non-highlighted segment holding the
\* text.  Otherwise the highlighted segments are the input chunks by ascending
\* startOffset, whatever the order they came in, each with the text and score
\* of its chunk; no non-highlighted segment is empty; and a non-highlighted
\* segment is either the gap between the end of the chunk before (or the start
\* of the text) and the chunk that follows it, or the remainder of the text
\* after the last chunk.
C34_ProjectorShape ==
    HighlightReturned =>
        LET text == invoked.text
            res == invoked.results
            out == returned.val
            H == highlighted(out)
            n == Len(res)
        IN IF n = 0 \/ Len(text) = 0
           THEN out = <<[text |-> text, isHighlight |-> FALSE]>>
           ELSE \E p \in Orders(n) :
                  /\ \A i \in 1..(n - 1) :
                        res[p[i]].startOffset <= res[p[i + 1]].startOffset
                  /\ Len(H) = n
                  /\ \A i \in 1..n :
                        /\ H[i].text = res[p[i]].text
                        /\ H[i].score = res[p[i]].score
                  /\ \A j \in DOMAIN out :
                        ~out[j].isHighlight =>
                            LET k == Len(highlighted(SubSeq(out, 1, j)))
                                from == IF k = 0 THEN 0 ELSE res[p[k]].endOffset
                            IN /\ out[j].text # <<>>
                               /\ IF k < n
                                  THEN /\ out[j + 1].isHighlight
                                       /\ out[j].text =
                                            slice(text, from, res[p[k + 1]].startOffset)
                                  ELSE /\ j = Len(out)
                                       /\ out[j].text = slice(text, from, Len(text))

\* two chunks came in with the later one first and with different scores; the
\* output is the earlier chunk, the gap between the two, the later chunk
C34_Witness ==
    /\ HighlightReturned
    /\ Len(invoked.results) = 2
    /\ invoked.results[1].startOffset > invoked.results[2].startOffset
    /\ invoked.results[1].score # invoked.results[2].score
    /\ Len(returned.val) = 3
    /\ ~returned.val[2].isHighlight
    /\ returned.val[1].score = invoked.results[2].score

\* C35 (as claimed): in useSelect, whatever the consumer does short of calling
\* setHighlightedIndex, highlightedIndex is -1 or an index into the options on
\* display, also when there is no option or fewer than before.
C35_HighlightInRange ==
    \/ highlightedIndex = -1
    \/ /\ 0 <= highlightedIndex
       /\ highlightedIndex < displayLength(query, isOpen, source, results)

\* C36 (as claimed): in useTooltip, when the call for the text requested last
\* has resolved and the earlier call, for another text, resolves right after
\* it, the explanation shown is still the one for the text requested last;
\* and isLoading is false only when no explain call is pending.
C36_LatestExplanationWins ==
    [][/\ (/\ lastOp.op = "explained" /\ lastOp.kind = "resolve"
           /\ ~lastOp.stale
           /\ lastOp'.op = "explained" /\ lastOp'.kind = "resolve"
           /\ lastOp'.stale /\ lastOp'.q # lastOp.q
           /\ explains' = <<>>)
            => explanation' = Output(lastOp.q)
       /\ ~isLoading' => explains' = <<>>]_vars

\* C37 (as claimed): client lifecycle.  initialized turns true only when an
\* initialize() call completes that began after the last dispose(), and false
\* only by dispose(), after which it is false; a ranking called while it is
\* false fails as unavailable (searchInText) or ranks lexically (searchItems).
C37_ReadyBetweenInitializeAndDispose ==
    [][/\ (~initialized /\ initialized')
            => /\ lastOp'.op = "initialize" /\ lastOp'.kind = "done"
               /\ ~lastOp'.stale
       /\ (initialized /\ ~initialized') => lastOp'.op = "dispose"
       /\ lastOp'.op = "dispose" => ~initialized'
       /\ (lastOp'.op = "searchInText" /\ ~initialized)
            => lastOp'.kind = "unavailable"
       /\ (lastOp'.op = "searchItems" /\ ~initialized)
            => lastOp'.kind = "lexical"]_vars

\* C38: in the lexical fallback the branch "item token starts with query
\* token" never scores.  Whenever a query token is a prefix of an item token,
\* the exact or the substring rule has taken it; so every score is the one
\* computed with 0.5 given only to a query token that some item token is a
\* proper prefix of.
C38_PrefixBranchIsDead ==
    LexicalCall =>
        LET ranked == returned.val.val
            tokens == Range(tokenize(invoked.q))
            combined(item) ==
                toLowerCase(join(<<item.label, item.description>> \o item.keywords))
            words(item) == Range(tokenize(combined(item)))
            taken(item) ==
                {t \in tokens : t \in words(item) \/ includes(combined(item), t)}
            extends(item) ==
                {t \in tokens \ taken(item) :
                    \E w \in words(item) : w # t /\ startsWith(t, w)}
            credit(item, t) ==
                IF t \in words(item) THEN 60
                ELSE IF t \in taken(item) THEN 42
                ELSE IF t \in extends(item) THEN 30
                ELSE 0
            RECURSIVE sum(_, _)
            sum(item, ts) ==
                IF ts = {} THEN 0
                ELSE LET t == CHOOSE t \in ts : TRUE
                     IN credit(item, t) + sum(item, ts \ {t})
            expected(item) ==
                IF sum(item, tokens) >= 60 * Cardinality(tokens) THEN 60
                ELSE sum(item, tokens) \div Cardinality(tokens)
        IN /\ \A k \in DOMAIN invoked.items, t \in tokens :
                 (\E w \in words(invoked.items[k]) : startsWith(w, t))
                     => t \in taken(invoked.items[k])
           /\ tokens # {} =>
                 \A k \in DOMAIN ranked : ranked[k].score = expected(ranked[k].item)

\* "ca" against ["c-at", Cat]: "ca" is a prefix of the token "cat" of Cat and
\* scores 0.7 there as a substring; the token "c" of "c-at" is a proper prefix
\* of "ca", which scores 0.5 there
C38_Witness ==
    /\ LexicalCall
    /\ invoked.q = <<"c", "a">>
    /\ invoked.items = <<Dashed, Cat>>
    /\ returned.val.val = <<[item |-> Cat, score |-> 42],
                            [item |-> Dashed, score |-> 30]>>

====
